---- MODULE Spec2Model ----
(***************************************************************************)
(* A model of the log-shipping pipeline of kirill-scherba/log:             *)
(*   - Init / CLose and the two wait groups      (log.go, in src/README.md)*)
(*   - loggersType.send, the dispatcher       (loggers.go, src/log_test.go)*)
(*   - the network sink worker and its failover store (src/unnamed/part_000)*)
(*   - the file sink worker                                 (src/file.go) *)
(* Time is discrete.  One unit of `now` is one step of the wall clock; the *)
(* wall clock is read by time.Now() for failover file names, log file      *)
(* names and the age of the active log file, and drives the ticker.        *)
(***************************************************************************)
EXTENDS Integers, Sequences, FiniteSets, TLC

(***************************************************************************)
(* Bounds of the model.                                                    *)
(***************************************************************************)
\* entries the application goroutine may submit
MaxEntries == 3
\* EsConfig.EntriesToHold, also the capacity of esEntryChannel
EntriesToHold == 2
\* EsConfig.MaxFailoverFiles
MaxFailoverFiles == 2
\* EsConfig.TimeToHold, in clock units
TimeToHold == 2
\* longest duration of one HTTP request (the client timeout), in clock units
MaxSendTime == 2
\* wall clock when the process starts; earlier values name records left by
\* an earlier run of the program
ClockStart == 14
\* the clock runs from ClockStart to ClockStart + MaxTicks
MaxTicks == 3
\* capacity of fileEntryChannel (100 in file.init), scaled down
FileChanCap == 2
\* clock units in one second: log file names have the granularity of a second
TicksPerSecond == 3

LevelDebug == "DEBUG"
LevelInfo  == "INFO"
LevelWarn  == "WARN"
LevelError == "ERROR"
LevelNone  == ""

\* the values SetDefaultLevel is called with, of the five it is documented
\* to take
LogLevels == {LevelDebug, LevelWarn, LevelNone}

\* goroutines that call loggers.send: the application goroutine, the
\* goroutine that runs Init and CLose ("logger initialized"), and
\* file.entryHandler ("create new log file:")
Sinks == {"es", "file"}
Senders == {"prod", "main", "fw"}

VARIABLES
    cfg,              \* the Config passed to Init
    env,              \* what the environment of this run can do
    mainPc,           \* position of the goroutine that calls Init and CLose
    useStdoutLogger,  \* loggersType.useStdoutLogger
    useEsLogger,      \* loggersType.useEsLogger
    useFailLogger,    \* loggersType.useFailLogger
    filterLevels,     \* loggersType.filterLevels
    wgStart,          \* loggersType.wgStart counter
    wgClose,          \* loggersType.wgClose counter
    esEntryChannel,   \* buffered entries of es.esEntryChannel
    esClosed,         \* es.esEntryChannel has been closed
    sendPc,           \* position of each sender inside loggers.send
    sendEntry,        \* the entry each sender is sending
    nextId,           \* entries created so far + 1
    quota,            \* entries the application goroutine may still submit
    panicked,         \* "none", or the reason the process died
    now,              \* wall clock
    esPc,             \* position of es.entryHandler
    entries,          \* es.entryHandler's local slice
    tickIn,           \* clock units until the ticker fires next (0: no ticker)
    tickC,            \* a tick is waiting in ticker.C
    dir,              \* the failover directory: its *.json files
    fileEntryChannel, \* buffered entries of file.fileEntryChannel
    fileClosed,       \* file.fileEntryChannel has been closed
    filePc,           \* position of file.entryHandler
    fEntry,           \* the entry file.entryHandler is handling
    f,                \* file.f: the file's name (0: nil) and whether the handle is open
    fCreatedAt,       \* file.fCreatedAt
    logFiles,         \* the log files on disk: name -> lines
    gzFiles,          \* the compressed log files on disk: name -> lines
    tasks,            \* the compress-and-remove tasks scheduled and not yet run
    \* history variables
    ev,               \* what the last step of es.entryHandler did
    submitted,        \* every entry passed to send, with the phase it was passed in
    returned,         \* ids of the entries whose send has returned
    stdoutLog,        \* ids written to stdout by send
    esPushed,         \* entries pushed on esEntryChannel, in order
    flushed,          \* entries passed to sendOrSave, in order
    delivered,        \* entries accepted by the endpoint, in order
    nAttempts,        \* calls of sendToElasticsearch so far
    removed,          \* numbers of the failover records removed, in order
    ticksSeen,        \* ticks es.entryHandler has received
    filePushed,       \* entries pushed on fileEntryChannel, in order
    fileLines,        \* lines written by file.entryHandler, in order
    ran,              \* what the last compress-and-remove task met
    \* one call of sendToElasticsearch, entry by entry
    codecPc,          \* position of the call
    esIndexName,      \* e.ES_INDEX_NAME
    entrys,           \* the entries passed to the call (Json writes to them)
    gzipBuf,          \* the compressed request body
    given,            \* history: the entries as they were passed
    \* Init called more than once: the channels and workers of every call
    inits,            \* calls of Init so far
    chanOf,           \* sink -> the channel its field holds (0: nil)
    closedChans,      \* the channels closed so far, as <<sink, channel>>
    workers,          \* the entryHandler goroutines started so far
    endpointUp,       \* from now on the endpoint accepts every request
    LevelDefault,     \* var LevelDefault
    nWrites,          \* history: calls of log.Println by the application
    \* es.init followed option by option
    esConfigArg,      \* the EsConfig passed to es.init
    esConfig          \* e.EsConfig (nil before es.init)

codecVars == <<codecPc, esIndexName, entrys, gzipBuf, given>>
initVars == <<inits, chanOf, closedChans, workers>>
levelVars == <<LevelDefault, nWrites, esConfigArg, esConfig>>
lifeVars == <<cfg, env, endpointUp, levelVars, codecVars, initVars, mainPc, useStdoutLogger, useEsLogger, useFailLogger,
              filterLevels, wgStart, wgClose>>
sendVars == <<sendPc, sendEntry, nextId, quota, submitted, returned, stdoutLog>>
esChanVars == <<esEntryChannel, esClosed, esPushed>>
fileChanVars == <<fileEntryChannel, fileClosed, filePushed>>
esVars == <<esPc, entries, dir, ev, flushed, delivered, nAttempts, removed,
           ticksSeen>>
fileVars == <<filePc, fEntry, f, fCreatedAt, logFiles, gzFiles, tasks, fileLines,
             ran>>
timeVars == <<now, tickIn, tickC>>
vars == <<lifeVars, sendVars, esChanVars, fileChanVars, esVars, fileVars,
          timeVars, panicked>>

Alive == panicked = "none"

(***************************************************************************)
(* Entries and configurations.                                             *)
(***************************************************************************)
NoEntry == [id |-> 0, level |-> LevelNone]

\* records a previous run of the program left in the failover directory hold
\* entries of that run
OldEntry(k) == [id |-> 0 - k, level |-> LevelInfo]

\* Config: UseStdout, EsConfig != nil, FileConfig != nil, FilterLevels,
\* !DoesNotShowInitMessage, FileConfig.CreateNewAfter (in clock units)
Configs ==
    [UseStdout : BOOLEAN, EsConfig : BOOLEAN, FileConfig : BOOLEAN,
     FilterLevels : {{}, {LevelDebug}}, ShowInit : BOOLEAN,
     CreateNewAfter : {0, 1}]

(***************************************************************************)
(* Failover file names.  saveBatchToDisk names a record                    *)
(* "batch-<UnixNano>.json"; processFailoverFiles sorts the names as        *)
(* strings.  A name is modelled by the characters that differ between two   *)
(* names: the decimal digits of the number and the '.' that follows them.   *)
(***************************************************************************)
RECURSIVE Digits(_)
Digits(n) == IF n < 10 THEN <<n>> ELSE Append(Digits(n \div 10), n % 10)

\* fmt.Sprintf("batch-%d.json", n), as character codes ('0' = 48, '.' = 46)
fileNameDescending(n) ==
    LET ds == Digits(n) IN [i \in 1..Len(ds) |-> 48 + (9 - ds[i])] \o <<46>>

fileName(n) ==
    LET ds == Digits(n) IN [i \in 1..Len(ds) |-> 48 + ds[i]] \o <<46>>

\* a < b for Go strings: the first differing byte decides, a proper prefix is smaller
StrLess(a, b) ==
    \E i \in 1..Len(b) :
        /\ i <= Len(a) + 1
        /\ \A j \in 1..(i - 1) : a[j] = b[j]
        /\ IF i = Len(a) + 1 THEN TRUE ELSE a[i] < b[i]

\* sort.Strings(files); files[0], for a non-empty directory
FirstFileLast(d) ==
    CHOOSE r \in d : \A o \in d \ {r} : StrLess(fileName(o.n), fileName(r.n))

FirstFile(d) ==
    CHOOSE r \in d : \A o \in d \ {r} : StrLess(fileName(r.n), fileName(o.n))

\* json.Marshal(entries): one JSON object per entry, in order
JsonMarshalReversed(batch) ==
    [i \in 1..Len(batch) |-> [level |-> batch[Len(batch) + 1 - i].level,
                              message |-> batch[Len(batch) + 1 - i].id]]

JsonMarshal(batch) ==
    [i \in 1..Len(batch) |-> [level |-> batch[i].level, message |-> batch[i].id]]

\* json.Unmarshal(data, &entries)
JsonUnmarshal(data) ==
    [i \in 1..Len(data) |-> [id |-> data[i].message, level |-> data[i].level]]

\* a record of the failover directory: the number in its name, whether its
\* content is a JSON array, and the content
Record(n, ok, data) == [n |-> n, ok |-> ok, data |-> data]

\* what saveBatchToDisk can meet: the directory cannot be listed, an entry
\* cannot be marshalled, the file cannot be created, the write fails after
\* the file was created, or all succeed
SaveOutcomes == {"ok", "readdir", "marshal", "open", "partial"}

\* len(files) >= e.MaxFailoverFiles
CapReachedOff(d) == Cardinality(d) > MaxFailoverFiles

CapReached(d) == Cardinality(d) >= MaxFailoverFiles

\* the error saveBatchToDisk returns ("" for nil)
SaveErr(d, out) ==
    IF out = "readdir" THEN "readdir"
    ELSE IF CapReached(d) THEN "limit"
    ELSE IF out = "ok" THEN "" ELSE out

\* the directory after saveBatchToDisk(batch) at clock t; os.WriteFile
\* creates or truncates the file, so a failed write leaves a file that is no
\* JSON array
SaveBatchToDiskNothing(d, batch, t, out) == d

SaveBatchToDisk(d, batch, t, out) ==
    IF SaveErr(d, out) \in {"readdir", "limit", "marshal", "open"} THEN d
    ELSE LET others == {r \in d : r.n # t} IN
         IF out = "partial" THEN others \cup {Record(t, FALSE, <<>>)}
         ELSE others \cup {Record(t, TRUE, JsonMarshal(batch))}

\* the ticker after d clock units: time to its next tick, and whether a tick
\* waits in its channel (the channel holds one tick; further ticks are dropped)
TickInAfter(d) ==
    IF tickIn = 0 THEN 0
    ELSE IF d < tickIn THEN tickIn - d
    ELSE TimeToHold - ((d - tickIn) % TimeToHold)

TickFiredNever(d) == FALSE

TickFired(d) == tickIn > 0 /\ d >= tickIn

Horizon == ClockStart + env.ticks

NoEvent == [kind |-> "none", trigger |-> "", batch |-> <<>>, target |-> 0,
            ok |-> FALSE, err |-> "", before |-> {}]

\* the failover directory as an earlier run of the program may have left it:
\* up to MaxFailoverFiles records, each holding one batch of that run
PrevDirs ==
    { { Record(ClockStart - j, TRUE, JsonMarshal(<<OldEntry(j)>>)) : j \in 1..k }
      : k \in 0..MaxFailoverFiles }

NoFile == [name |-> 0, open |-> FALSE]

NoRun == [name |-> 0, err |-> "", rm |-> FALSE]

\* gzip.NewWriter(dst); io.Copy(gz, src); gz.Close(): a gzip stream is a
\* header followed by the deflated data
GzipDropsLast(data) ==
    [magic |-> "gzip", body |-> SubSeq(data, 1, Len(data) - 1)]

Gzip(data) == [magic |-> "gzip", body |-> data]

\* gzip.NewReader(src); io.ReadAll(gz)
Gunzip(z) == IF z.magic = "gzip" THEN z.body ELSE <<>>

\* a nil *EsConfig
NilConfig == [nil |-> TRUE, TimeToHold |-> 0, EntriesToHold |-> 0,
              MaxFailoverFiles |-> 0]

InitState(cfgs, envs) ==
    /\ cfg \in cfgs
    /\ env \in envs
    /\ mainPc = "start"
    \* newLoggers()
    /\ useStdoutLogger = TRUE
    /\ useEsLogger = FALSE
    /\ useFailLogger = FALSE
    /\ filterLevels = {}
    /\ wgStart = 0
    /\ wgClose = 0
    /\ esEntryChannel = <<>>
    /\ esClosed = FALSE
    /\ fileEntryChannel = <<>>
    /\ fileClosed = FALSE
    /\ sendPc = [p \in Senders |-> "idle"]
    /\ sendEntry = [p \in Senders |-> NoEntry]
    /\ nextId = 1
    /\ quota = env.entries
    /\ panicked = "none"
    /\ now = ClockStart
    /\ esPc = "off"
    /\ entries = <<>>
    /\ tickIn = 0
    /\ tickC = FALSE
    /\ dir \in (IF cfg.EsConfig /\ env.leftovers THEN PrevDirs ELSE {{}})
    /\ filePc = "off"
    /\ fEntry = NoEntry
    /\ f = NoFile
    /\ fCreatedAt = 0
    /\ logFiles = <<>>
    /\ gzFiles = <<>>
    /\ tasks = {}
    /\ ran = NoRun
    /\ ev = NoEvent
    /\ submitted = {}
    /\ returned = {}
    /\ stdoutLog = {}
    /\ esPushed = <<>>
    /\ filePushed = <<>>
    /\ flushed = <<>>
    /\ delivered = <<>>
    /\ nAttempts = 0
    /\ removed = <<>>
    /\ ticksSeen = 0
    /\ fileLines = <<>>
    /\ inits = 0
    /\ chanOf = [s \in Sinks |-> 0]
    /\ closedChans = {}
    /\ workers = {}
    /\ endpointUp = FALSE
    \* var LevelDefault = LevelDebug
    /\ LevelDefault = LevelDebug
    /\ nWrites = 0
    /\ esConfig = NilConfig

\* no call of sendToElasticsearch is followed entry by entry, nor es.init
\* option by option
InitWith(cfgs, envs) ==
    /\ InitState(cfgs, envs)
    /\ esConfigArg = NilConfig
    /\ codecPc = "off"
    /\ esIndexName = "logs"
    /\ entrys = <<>>
    /\ gzipBuf = Gzip(<<>>)
    /\ given = <<>>

(***************************************************************************)
(* loggersType.send                                                        *)
(***************************************************************************)
\* whether Init has set the flags: an entry is passed to send before Init
\* ("pre") or after Init configured the loggers ("post")
Phase == IF mainPc = "start" THEN "pre" ELSE "post"

\* if l.filterLevels != nil { if slices.Contains(l.filterLevels, entry.Level) ...
FilteredNever(e) == FALSE

Filtered(e) == filterLevels # {} /\ e.level \in filterLevels

\* send, up to the push on the network channel: the filter, then stdout
SendBegin(p, e) ==
    /\ submitted' = submitted \cup {[e |-> e, phase |-> Phase]}
    /\ nextId' = nextId + 1
    /\ IF Filtered(e)
       THEN /\ returned' = returned \cup {e.id}
            /\ UNCHANGED <<sendPc, sendEntry, stdoutLog>>
       ELSE /\ stdoutLog' = IF useStdoutLogger THEN stdoutLog \cup {e.id}
                            ELSE stdoutLog
            /\ sendPc' = [sendPc EXCEPT ![p] = "es"]
            /\ sendEntry' = [sendEntry EXCEPT ![p] = e]
            /\ UNCHANGED returned

\* a send on a buffered channel goes through when the buffer has room, and
\* blocks otherwise: make(chan *LogEntry, capacity)
ChanHasRoomAlways(ch, capacity) == TRUE

ChanHasRoom(ch, capacity) == Len(ch) < capacity

\* if l.useEsLogger { l.esEntryChannel <- entry }
SendEs(p) ==
    /\ Alive
    /\ sendPc[p] = "es"
    /\ IF ~useEsLogger
       THEN /\ sendPc' = [sendPc EXCEPT ![p] = "file"]
            /\ UNCHANGED <<esChanVars, panicked>>
       ELSE IF esClosed
       THEN /\ panicked' = "send on closed channel"
            /\ UNCHANGED <<esChanVars, sendPc>>
       ELSE /\ ChanHasRoom(esEntryChannel, EntriesToHold)
            /\ esEntryChannel' = Append(esEntryChannel, sendEntry[p])
            /\ esPushed' = Append(esPushed, sendEntry[p])
            /\ sendPc' = [sendPc EXCEPT ![p] = "file"]
            /\ UNCHANGED <<esClosed, panicked>>
    /\ UNCHANGED <<lifeVars, sendEntry, nextId, quota, submitted, returned,
                   stdoutLog, fileChanVars, esVars, fileVars, timeVars>>

\* if l.useFailLogger { l.fileEntryChannel <- entry }; return
SendFile(p) ==
    /\ Alive
    /\ sendPc[p] = "file"
    /\ IF ~useFailLogger
       THEN /\ sendPc' = [sendPc EXCEPT ![p] = "idle"]
            /\ returned' = returned \cup {sendEntry[p].id}
            /\ UNCHANGED <<fileChanVars, panicked>>
       ELSE IF fileClosed
       THEN /\ panicked' = "send on closed channel"
            /\ UNCHANGED <<fileChanVars, sendPc, returned>>
       ELSE /\ ChanHasRoom(fileEntryChannel, FileChanCap)
            /\ fileEntryChannel' = Append(fileEntryChannel, sendEntry[p])
            /\ filePushed' = Append(filePushed, sendEntry[p])
            /\ sendPc' = [sendPc EXCEPT ![p] = "idle"]
            /\ returned' = returned \cup {sendEntry[p].id}
            /\ UNCHANGED <<fileClosed, panicked>>
    /\ UNCHANGED <<lifeVars, sendEntry, nextId, quota, submitted, stdoutLog,
                   esChanVars, esVars, fileVars, timeVars>>

\* the application goroutine calls PrintLevel(level, ...): send(entry(level, ...)).
\* Init is called once when the application starts: no send is in progress
\* while Init runs.
Submit ==
    /\ Alive
    /\ sendPc["prod"] = "idle"
    /\ quota > 0
    /\ \/ mainPc \in {"running", "close_file", "close_wait", "closed"}
       \/ mainPc = "start" /\ env.early
    /\ \E lvl \in env.levels : SendBegin("prod", [id |-> nextId, level |-> lvl])
    /\ quota' = quota - 1
    /\ UNCHANGED <<lifeVars, esChanVars, fileChanVars, esVars, fileVars,
                   timeVars, panicked>>

\* if LevelDefault == LevelNone the message is ignored, else it is sent
WriteIgnoredNever == FALSE

WriteIgnored == LevelDefault = LevelNone

\* log.Println(...) by the application: customWriter.Write.  The level is
\* LevelDefault, or the one between '[' and ']' at the head of the message
WriteCall ==
    /\ Alive
    /\ sendPc["prod"] = "idle"
    /\ quota > 0
    /\ mainPc \in {"running", "close_file", "close_wait", "closed"}
    /\ nWrites' = nWrites + 1
    /\ IF WriteIgnored
       THEN UNCHANGED <<sendPc, sendEntry, nextId, submitted, returned, stdoutLog>>
       ELSE \E lvl \in {LevelDefault} \cup env.levels :
                SendBegin("prod", [id |-> nextId, level |-> lvl])
    /\ quota' = quota - 1
    /\ UNCHANGED <<cfg, env, LevelDefault, esConfigArg, esConfig, endpointUp, codecVars, initVars, mainPc,
                   useStdoutLogger, useEsLogger, useFailLogger, filterLevels,
                   wgStart, wgClose, esChanVars, fileChanVars, esVars, fileVars,
                   timeVars, panicked>>

\* SetDefaultLevel(level): LevelDefault = level
SetDefaultLevel ==
    /\ Alive
    /\ \E level \in LogLevels \ {LevelDefault} : LevelDefault' = level
    /\ UNCHANGED <<cfg, env, nWrites, esConfigArg, esConfig, endpointUp, codecVars, initVars, mainPc,
                   useStdoutLogger, useEsLogger, useFailLogger, filterLevels,
                   wgStart, wgClose, sendVars, esChanVars, fileChanVars, esVars,
                   fileVars, timeVars, panicked>>

(***************************************************************************)
(* Init and CLose                                                          *)
(***************************************************************************)
\* loggers.useStdoutLogger = config.UseStdout; loggers.filterLevels = ...
InitBegin ==
    /\ Alive
    /\ mainPc = "start"
    /\ sendPc["prod"] = "idle"
    /\ useStdoutLogger' = cfg.UseStdout
    /\ filterLevels' = cfg.FilterLevels
    /\ mainPc' = "init_es"
    /\ UNCHANGED <<cfg, env, levelVars, endpointUp, codecVars, initVars, useEsLogger, useFailLogger, wgStart, wgClose, sendVars,
                   esChanVars, fileChanVars, esVars, fileVars, timeVars, panicked>>

\* if config.EsConfig != nil { loggers.es.init(...); loggers.useEsLogger = true }
InitEs ==
    /\ Alive
    /\ mainPc = "init_es"
    /\ IF cfg.EsConfig
       THEN /\ esEntryChannel' = <<>>
            /\ wgStart' = wgStart + 1
            /\ esPc' = "spawned"
            /\ useEsLogger' = TRUE
       ELSE UNCHANGED <<esEntryChannel, wgStart, esPc, useEsLogger>>
    /\ mainPc' = "init_file"
    /\ UNCHANGED <<cfg, env, levelVars, endpointUp, codecVars, initVars, useStdoutLogger, useFailLogger, filterLevels, wgClose,
                   sendVars, esClosed, esPushed, fileChanVars, entries, dir, ev,
                   flushed, delivered, nAttempts, removed, ticksSeen, fileVars, timeVars, panicked>>

\* if config.FileConfig != nil { loggers.file.init(...); loggers.useFailLogger = true }
InitFile ==
    /\ Alive
    /\ mainPc = "init_file"
    /\ IF cfg.FileConfig
       THEN /\ fileEntryChannel' = <<>>
            /\ wgStart' = wgStart + 1
            /\ filePc' = "spawned"
            /\ useFailLogger' = TRUE
       ELSE UNCHANGED <<fileEntryChannel, wgStart, filePc, useFailLogger>>
    /\ mainPc' = "init_wait"
    /\ UNCHANGED <<cfg, env, levelVars, endpointUp, codecVars, initVars, useStdoutLogger, useEsLogger, filterLevels, wgClose,
                   sendVars, esChanVars, fileClosed, filePushed, esVars, fEntry, f,
                   fCreatedAt, logFiles, gzFiles, tasks, fileLines, ran, timeVars,
                   panicked>>

\* loggers.wgStart.Wait()
InitWait ==
    /\ Alive
    /\ mainPc = "init_wait"
    /\ wgStart = 0
    /\ mainPc' = "init_msg"
    /\ UNCHANGED <<cfg, env, levelVars, endpointUp, codecVars, initVars, useStdoutLogger, useEsLogger, useFailLogger, filterLevels,
                   wgStart, wgClose, sendVars, esChanVars, fileChanVars, esVars,
                   fileVars, timeVars, panicked>>

\* log.Println(...) through customWriter.Write:
\* if !config.DoesNotShowInitMessage { log.Println("logger initialized") }
InitMsg ==
    /\ Alive
    /\ mainPc = "init_msg"
    /\ IF cfg.ShowInit /\ ~WriteIgnored
       THEN SendBegin("main", [id |-> nextId, level |-> LevelDefault])
       ELSE UNCHANGED <<sendPc, sendEntry, nextId, submitted, returned, stdoutLog>>
    /\ mainPc' = "init_ret"
    /\ UNCHANGED <<cfg, env, levelVars, endpointUp, codecVars, initVars, useStdoutLogger, useEsLogger, useFailLogger, filterLevels,
                   wgStart, wgClose, quota, esChanVars, fileChanVars, esVars,
                   fileVars, timeVars, panicked>>

\* Init returns
InitReturn ==
    /\ Alive
    /\ mainPc = "init_ret"
    /\ sendPc["main"] = "idle"
    /\ mainPc' = "running"
    /\ UNCHANGED <<cfg, env, levelVars, endpointUp, codecVars, initVars, useStdoutLogger, useEsLogger, useFailLogger, filterLevels,
                   wgStart, wgClose, sendVars, esChanVars, fileChanVars, esVars,
                   fileVars, timeVars, panicked>>

\* CLose: if loggers.useEsLogger { loggers.es.close() }
CloseEs ==
    /\ Alive
    /\ mainPc = "running"
    /\ esClosed' = (esClosed \/ useEsLogger)
    /\ mainPc' = "close_file"
    /\ UNCHANGED <<cfg, env, levelVars, endpointUp, codecVars, initVars, useStdoutLogger, useEsLogger, useFailLogger, filterLevels,
                   wgStart, wgClose, sendVars, esEntryChannel, esPushed,
                   fileChanVars, esVars, fileVars, timeVars, panicked>>

\* CLose: if loggers.useFailLogger { loggers.file.close() }
CloseFile ==
    /\ Alive
    /\ mainPc = "close_file"
    /\ fileClosed' = (fileClosed \/ useFailLogger)
    /\ mainPc' = "close_wait"
    /\ UNCHANGED <<cfg, env, levelVars, endpointUp, codecVars, initVars, useStdoutLogger, useEsLogger, useFailLogger, filterLevels,
                   wgStart, wgClose, sendVars, esChanVars, fileEntryChannel,
                   filePushed, esVars, fileVars, timeVars, panicked>>

\* CLose: loggers.wgClose.Wait()
WaitPasses == wgClose = 0

CloseWait ==
    /\ Alive
    /\ mainPc = "close_wait"
    /\ WaitPasses
    /\ mainPc' = "closed"
    /\ UNCHANGED <<cfg, env, levelVars, endpointUp, codecVars, initVars, useStdoutLogger, useEsLogger, useFailLogger, filterLevels,
                   wgStart, wgClose, sendVars, esChanVars, fileChanVars, esVars,
                   fileVars, timeVars, panicked>>

(***************************************************************************)
(* es.entryHandler                                                         *)
(***************************************************************************)
\* loggers.wgStart.Done()
EsStarted ==
    /\ Alive
    /\ esPc = "spawned"
    /\ wgStart' = wgStart - 1
    /\ esPc' = "add"
    /\ UNCHANGED <<cfg, env, levelVars, endpointUp, codecVars, initVars, mainPc, useStdoutLogger, useEsLogger, useFailLogger,
                   filterLevels, wgClose, sendVars, esChanVars, fileChanVars,
                   entries, dir, ev, flushed, delivered, nAttempts, removed, ticksSeen, fileVars,
                   timeVars, panicked>>

\* loggers.wgClose.Add(1); var entries []*LogEntry; ticker := time.NewTicker(e.TimeToHold)
EsAdd ==
    /\ Alive
    /\ esPc = "add"
    /\ wgClose' = wgClose + 1
    /\ entries' = <<>>
    /\ tickIn' = TimeToHold
    /\ tickC' = FALSE
    /\ esPc' = "loop"
    /\ UNCHANGED <<cfg, env, levelVars, endpointUp, codecVars, initVars, mainPc, useStdoutLogger, useEsLogger, useFailLogger,
                   filterLevels, wgStart, sendVars, esChanVars, fileChanVars,
                   dir, ev, flushed, delivered, nAttempts, removed, ticksSeen, fileVars, now, panicked>>

\* the batch as the endpoint receives it, in the request numbered att
AsDelivered(batch, via, att) ==
    [i \in 1..Len(batch) |-> [id |-> batch[i].id, via |-> via, att |-> att]]

\* sendOrSave(batch): sendToElasticsearch takes d clock units and succeeds or
\* not; on failure saveBatchToDisk meets `out`.  The ticker is left to the caller.
SendOrSave(batch, trigger, d, ok, out) ==
    /\ now + d <= Horizon
    /\ now' = now + d
    /\ nAttempts' = nAttempts + 1
    /\ flushed' = flushed \o batch
    /\ IF ok
       THEN /\ dir' = dir
            /\ delivered' = delivered \o AsDelivered(batch, "direct", nAttempts + 1)
       ELSE /\ dir' = SaveBatchToDisk(dir, batch, now + d, out)
            /\ delivered' = delivered
    /\ ev' = [kind |-> "flush", trigger |-> trigger, batch |-> batch,
              target |-> now + d, ok |-> ok,
              err |-> IF ok THEN "" ELSE SaveErr(dir, out), before |-> dir]

\* what the endpoint may answer, and what the disk may do
SendTimes == 1..MaxSendTime

Oks == IF env.netDown /\ ~endpointUp THEN BOOLEAN ELSE {TRUE}

Outs == IF env.diskFails THEN SaveOutcomes ELSE {"ok"}

Listed == IF env.diskFails THEN BOOLEAN ELSE {TRUE}

\* os.Remove(filePath) removes the file or fails; its error is not looked at
Removes == IF env.diskFails THEN BOOLEAN ELSE {TRUE}

\* if err := e.sendToElasticsearch(entries...); err == nil { os.Remove(filePath)
ResendRemovesAlways(ok) == TRUE

ResendRemoves(ok) == ok

\* if err := json.Unmarshal(data, &entries); err != nil
CorruptNever(rec) == FALSE

Corrupt(rec) == ~rec.ok

\* if e.processFailoverFiles() { continue }, else the select
AfterResendSelect(ok) == "select"

AfterResend(ok) == IF ok THEN "loop" ELSE "select"

\* processFailoverFiles, and the `continue` on true
EsProcessFailover ==
    /\ Alive
    /\ esPc = "loop"
    /\ \E listed \in Listed, d \in SendTimes, ok \in Oks, rm \in Removes :
         IF dir = {} \/ ~listed
         THEN \* no *.json file is found, or the oldest cannot be read
              /\ esPc' = "select"
              /\ ev' = [NoEvent EXCEPT !.kind = "idle", !.before = dir]
              /\ UNCHANGED <<dir, delivered, nAttempts, removed, timeVars>>
         ELSE LET rec == FirstFile(dir) IN
              IF Corrupt(rec)
              THEN \* json.Unmarshal fails: os.Remove(filePath); return false
                   /\ IF rm
                      THEN /\ dir' = dir \ {rec}
                           /\ removed' = Append(removed, rec.n)
                      ELSE UNCHANGED <<dir, removed>>
                   /\ esPc' = "select"
                   /\ ev' = [NoEvent EXCEPT !.kind = "corrupt", !.target = rec.n,
                                            !.before = dir]
                   /\ UNCHANGED <<delivered, nAttempts, timeVars>>
              ELSE \* sendToElasticsearch(entries...)
                   /\ now + d <= Horizon
                   /\ now' = now + d
                   /\ tickIn' = TickInAfter(d)
                   /\ tickC' = (tickC \/ TickFired(d))
                   /\ nAttempts' = nAttempts + 1
                   /\ ev' = [kind |-> "resend", trigger |-> "",
                             batch |-> JsonUnmarshal(rec.data), target |-> rec.n,
                             ok |-> ok, err |-> "", before |-> dir]
                   /\ IF ResendRemoves(ok) /\ rm
                      THEN /\ dir' = dir \ {rec}
                           /\ removed' = Append(removed, rec.n)
                      ELSE UNCHANGED <<dir, removed>>
                   /\ esPc' = AfterResend(ok)
                   /\ IF ok
                      THEN delivered' = delivered \o
                               AsDelivered(JsonUnmarshal(rec.data), "failover",
                                           nAttempts + 1)
                      ELSE UNCHANGED delivered
    /\ UNCHANGED <<lifeVars, sendVars, esChanVars, fileChanVars, entries,
                   flushed, ticksSeen, fileVars, panicked>>

\* len(entries) >= e.EntriesToHold
BatchFullNever(batch) == FALSE

BatchFullAbove(batch) == Len(batch) > EntriesToHold

BatchFull(batch) == Len(batch) >= EntriesToHold

\* ticker.Reset(e.TimeToHold): the next tick is a full period away; a tick
\* that fired before the reset stays in the channel with timers of Go before
\* 1.23 and is discarded by later ones
ResetKeeps == BOOLEAN

\* ticker.Reset(e.TimeToHold), d clock units after the ticker was last looked at
TickerResetSkipped(d) == TickInAfter(d)

TickerReset(d) == TimeToHold

\* e.sendOrSave(entries); entries = nil
ClearedNot(batch) == batch

Cleared(batch) == <<>>

\* entries = append(entries, entry)
BatchedFront(batch, e) == <<e>> \o batch

Batched(batch, e) == Append(batch, e)

\* case entry, ok := <-e.esEntryChannel, ok: append, and send a full batch
EsReceive ==
    /\ Alive
    /\ esPc = "select"
    /\ esEntryChannel # <<>>
    /\ esEntryChannel' = Tail(esEntryChannel)
    /\ LET batch == Batched(entries, Head(esEntryChannel)) IN
       IF BatchFull(batch)
       THEN \E d \in SendTimes, ok \in Oks, out \in Outs,
               keep \in ResetKeeps :
              /\ SendOrSave(batch, "count", d, ok, out)
              /\ entries' = Cleared(batch)
              /\ tickIn' = TickerReset(d)
              /\ tickC' = (keep /\ (tickC \/ TickFired(d)))
       ELSE /\ entries' = batch
            /\ ev' = [NoEvent EXCEPT !.before = dir]
            /\ UNCHANGED <<dir, flushed, delivered, nAttempts, timeVars>>
    /\ esPc' = "loop"
    /\ UNCHANGED <<lifeVars, sendVars, esClosed, esPushed, fileChanVars,
                   removed, ticksSeen, fileVars, panicked>>

\* if len(entries) > 0
HasEntriesNever(batch) == FALSE

HasEntries(batch) == Len(batch) > 0

\* case entry, ok := <-e.esEntryChannel, !ok: send what is left and return;
\* the deferred ticker.Stop() and loggers.wgClose.Done() run
EsClosed ==
    /\ Alive
    /\ esPc = "select"
    /\ esEntryChannel = <<>>
    /\ esClosed
    /\ IF HasEntries(entries)
       THEN \E d \in SendTimes, ok \in Oks, out \in Outs :
              SendOrSave(entries, "close", d, ok, out)
       ELSE /\ ev' = [NoEvent EXCEPT !.before = dir]
            /\ UNCHANGED <<dir, flushed, delivered, nAttempts, now>>
    /\ entries' = <<>>
    /\ tickIn' = 0
    /\ tickC' = FALSE
    /\ wgClose' = wgClose - 1
    /\ esPc' = "exited"
    /\ UNCHANGED <<cfg, env, levelVars, endpointUp, codecVars, initVars, mainPc, useStdoutLogger, useEsLogger, useFailLogger,
                   filterLevels, wgStart, sendVars, esChanVars, fileChanVars,
                   removed, ticksSeen, fileVars, panicked>>

\* case <-ticker.C: send the entries held, if any
EsTick ==
    /\ Alive
    /\ esPc = "select"
    /\ tickC
    /\ IF Len(entries) > 0
       THEN \E d \in SendTimes, ok \in Oks, out \in Outs :
              /\ SendOrSave(entries, "tick", d, ok, out)
              /\ entries' = Cleared(entries)
              /\ tickIn' = TickInAfter(d)
              /\ tickC' = TickFired(d)
       ELSE /\ tickC' = FALSE
            /\ ev' = [NoEvent EXCEPT !.before = dir]
            /\ UNCHANGED <<entries, dir, flushed, delivered, nAttempts, now, tickIn>>
    /\ ticksSeen' = ticksSeen + 1
    /\ esPc' = "loop"
    /\ UNCHANGED <<lifeVars, sendVars, esChanVars, fileChanVars, removed,
                   fileVars, panicked>>

\* the endpoint comes back: from now on it answers every request with 200
EndpointRecovers ==
    /\ Alive
    /\ ~endpointUp
    /\ endpointUp' = TRUE
    /\ UNCHANGED <<cfg, env, levelVars, codecVars, initVars, mainPc, useStdoutLogger,
                   useEsLogger, useFailLogger, filterLevels, wgStart, wgClose,
                   sendVars, esChanVars, fileChanVars, esVars, fileVars,
                   timeVars, panicked>>

\* one unit of time passes
TimePasses ==
    /\ Alive
    /\ now < Horizon
    /\ now' = now + 1
    /\ tickIn' = TickInAfter(1)
    /\ tickC' = (tickC \/ TickFired(1))
    /\ UNCHANGED <<lifeVars, sendVars, esChanVars, fileChanVars, esVars,
                   fileVars, panicked>>

(***************************************************************************)
(* file.entryHandler                                                       *)
(***************************************************************************)
\* loggers.wgStart.Done()
FileStarted ==
    /\ Alive
    /\ filePc = "spawned"
    /\ wgStart' = wgStart - 1
    /\ filePc' = "add"
    /\ UNCHANGED <<cfg, env, levelVars, endpointUp, codecVars, initVars, mainPc, useStdoutLogger, useEsLogger, useFailLogger,
                   filterLevels, wgClose, sendVars, esChanVars, fileChanVars,
                   esVars, fEntry, f, fCreatedAt, logFiles, gzFiles, tasks, ran,
                   fileLines, timeVars, panicked>>

\* loggers.wgClose.Add(1)
FileAdd ==
    /\ Alive
    /\ filePc = "add"
    /\ wgClose' = wgClose + 1
    /\ filePc' = "recv"
    /\ UNCHANGED <<cfg, env, levelVars, endpointUp, codecVars, initVars, mainPc, useStdoutLogger, useEsLogger, useFailLogger,
                   filterLevels, wgStart, sendVars, esChanVars, fileChanVars,
                   esVars, fEntry, f, fCreatedAt, logFiles, gzFiles, tasks, ran,
                   fileLines, timeVars, panicked>>

\* now.Format("2006.01.02-15.04.05"): the file name changes once a second
logName(t) == 1 + (t \div TicksPerSecond)

\* time.AfterFunc(1*time.Second, func() { time.Sleep(1 * time.Second); ... })
CompressDelay == 2 * TicksPerSecond

\* f.f.Write([]byte(entry.String() + "\n")): the line reaches the file when
\* the handle is open and the file is still on disk
Landed(file, files) == file.open /\ file.name \in DOMAIN files

WriteLine(file, files, e) ==
    IF Landed(file, files)
    THEN [files EXCEPT ![file.name] = Append(@, e.id)]
    ELSE files

\* f.f.Close(), before newLogfile is called
Closed(file) == [file EXCEPT !.open = FALSE]

\* if f.CreateNewAfter > 0 && time.Since(f.fCreatedAt) > f.CreateNewAfter
SwitchDue ==
    /\ f.name # 0
    /\ cfg.CreateNewAfter > 0
    /\ now - fCreatedAt > cfg.CreateNewAfter

\* what newLogfile can meet: the folder cannot be created, the file cannot
\* be opened, or all succeed
FsOutcomes == IF env.diskFails THEN {"ok", "mkdir", "open"} ELSE {"ok"}

\* entry, ok := <-f.fileEntryChannel, ok: set or change the file, then write.
\* newLogfile ends with log.Println("create new log file:", ...), which comes
\* back into send through customWriter.Write; the line is written after it.
FileReceive ==
    /\ Alive
    /\ filePc = "recv"
    /\ fileEntryChannel # <<>>
    /\ fileEntryChannel' = Tail(fileEntryChannel)
    /\ LET e == Head(fileEntryChannel) IN
       IF f.name # 0 /\ ~SwitchDue
       THEN /\ logFiles' = WriteLine(f, logFiles, e)
            /\ fileLines' = Append(fileLines,
                   [id |-> e.id, name |-> f.name, landed |-> Landed(f, logFiles)])
            /\ UNCHANGED <<filePc, fEntry, f, fCreatedAt, tasks, sendVars>>
       ELSE \E res \in FsOutcomes :
            LET old == IF f.name # 0 THEN Closed(f) ELSE f IN
            IF res # "ok"
            THEN \* newLogfile returns the error: continue
                 /\ f' = old
                 /\ UNCHANGED <<filePc, fEntry, fCreatedAt, logFiles, tasks,
                                fileLines, sendVars>>
            ELSE /\ logFiles' = IF logName(now) \in DOMAIN logFiles THEN logFiles
                                ELSE logFiles @@ (logName(now) :> <<>>)
                 /\ tasks' = IF f.name # 0
                             THEN tasks \cup {[name |-> f.name,
                                               due |-> now + CompressDelay]}
                             ELSE tasks
                 /\ f' = [name |-> logName(now), open |-> TRUE]
                 /\ fCreatedAt' = now
                 /\ fEntry' = e
                 /\ filePc' = "logsend"
                 /\ IF WriteIgnored
                    THEN UNCHANGED <<sendPc, sendEntry, nextId, submitted,
                                     returned, stdoutLog>>
                    ELSE SendBegin("fw", [id |-> nextId, level |-> LevelDefault])
                 /\ UNCHANGED <<quota, fileLines>>
    /\ UNCHANGED <<lifeVars, esChanVars, fileClosed, filePushed, esVars, gzFiles, ran,
                   timeVars, panicked>>

\* newLogfile has returned nil: f.f.Write([]byte(entry.String() + "\n"))
FileWrite ==
    /\ Alive
    /\ filePc = "logsend"
    /\ sendPc["fw"] = "idle"
    /\ logFiles' = WriteLine(f, logFiles, fEntry)
    /\ fileLines' = Append(fileLines,
           [id |-> fEntry.id, name |-> f.name, landed |-> Landed(f, logFiles)])
    /\ fEntry' = NoEntry
    /\ filePc' = "recv"
    /\ UNCHANGED <<lifeVars, sendVars, esChanVars, fileChanVars, esVars, f,
                   fCreatedAt, gzFiles, tasks, ran, timeVars, panicked>>

\* entry, ok := <-f.fileEntryChannel, !ok: break; the deferred
\* loggers.wgClose.Done() runs
FileClosed ==
    /\ Alive
    /\ filePc = "recv"
    /\ fileEntryChannel = <<>>
    /\ fileClosed
    /\ wgClose' = wgClose - 1
    /\ filePc' = "exited"
    /\ UNCHANGED <<cfg, env, levelVars, endpointUp, codecVars, initVars, mainPc, useStdoutLogger, useEsLogger, useFailLogger,
                   filterLevels, wgStart, sendVars, esChanVars, fileChanVars,
                   esVars, fEntry, f, fCreatedAt, logFiles, gzFiles, tasks, ran,
                   fileLines, timeVars, panicked>>

\* what compressFile can meet: the .gz file cannot be created, the copy
\* fails, or all succeed
GzOutcomes == IF env.diskFails THEN {"ok", "create", "copy"} ELSE {"ok"}

\* f.compressFile(fileName); os.Remove(fileName): the removal is called
\* whatever compressFile returned
RemoveCalledAfterSuccess(err) == err = ""

RemoveCalled(err) == TRUE

\* the error compressFile returns: os.Open of a file that is gone, os.Create,
\* io.Copy, or none
CompressErr(name, res) ==
    IF name \notin DOMAIN logFiles THEN "open"
    ELSE IF res = "ok" THEN "" ELSE res

\* the task scheduled by newLogfile: f.compressFile(fileName); os.Remove(fileName)
CompressTask ==
    /\ Alive
    /\ \E t \in tasks, res \in GzOutcomes, rm \in Removes :
         /\ t.due <= now
         /\ tasks' = tasks \ {t}
         /\ gzFiles' =
              IF t.name \notin DOMAIN logFiles \/ res = "create" THEN gzFiles
              ELSE LET gz == [lines |-> IF res = "ok" THEN Gzip(logFiles[t.name])
                                        ELSE Gzip(<<>>),
                              whole |-> res = "ok"] IN
                   IF t.name \in DOMAIN gzFiles
                   THEN [gzFiles EXCEPT ![t.name] = gz]
                   ELSE gzFiles @@ (t.name :> gz)
         /\ logFiles' = IF RemoveCalled(CompressErr(t.name, res)) /\ rm
                        THEN [n \in DOMAIN logFiles \ {t.name} |-> logFiles[n]]
                        ELSE logFiles
         /\ ran' = [name |-> t.name, err |-> CompressErr(t.name, res), rm |-> rm]
    /\ UNCHANGED <<lifeVars, sendVars, esChanVars, fileChanVars, esVars, filePc,
                   fEntry, f, fCreatedAt, fileLines, timeVars, panicked>>

(***************************************************************************)
(* The bulk codec: entry.Json and the body sendToElasticsearch builds.     *)
(* A text is a sequence of characters and JSON tokens.                     *)
(***************************************************************************)
MaxBatch == 2
MaxMessage == 3

Chars == {"a", "\n"}
Messages == UNION {[1..n -> Chars] : n \in 0..MaxMessage}

\* LogEntry.Fields: nil, a map json.Marshal accepts, a map holding a value
\* it rejects (a channel, a function)
FieldsKinds == {"nil", "map", "chan"}

LogEntries == [Level : {LevelDebug, LevelError}, Message : Messages,
               Fields : FieldsKinds]

Batches == UNION {[1..n -> LogEntries] : n \in 0..MaxBatch}

\* strings.Trim(entry.Message, "\n")
RECURSIVE TrimLeft(_)
TrimLeft(m) == IF m # <<>> /\ Head(m) = "\n" THEN TrimLeft(Tail(m)) ELSE m

RECURSIVE TrimRight(_)
TrimRight(m) ==
    IF m # <<>> /\ m[Len(m)] = "\n" THEN TrimRight(SubSeq(m, 1, Len(m) - 1)) ELSE m

Trim(m) == TrimRight(TrimLeft(m))

\* json.Marshal writes a newline inside a string as the two characters \n
EscapeNothing(m) == m

RECURSIVE Escape(_)
Escape(m) ==
    IF m = <<>> THEN <<>>
    ELSE (IF Head(m) = "\n" THEN <<"\\", "n">> ELSE <<Head(m)>>) \o Escape(Tail(m))

\* json.Marshal(entry): the document, or an error
MarshalEntry(e) ==
    IF e.Fields = "chan"
    THEN [err |-> TRUE, text |-> <<>>]
    ELSE [err |-> FALSE,
          text |-> <<"{", "level", e.Level, "message", "\"">> \o Escape(e.Message)
                   \o <<"\"">>
                   \o (IF e.Fields = "map" THEN <<"fields">> ELSE <<>>)
                   \o <<"}">>]

ErrorDocument == <<"{", "error", "}">>

\* entry.Json(): writes the trimmed message to the entry, then marshals it
Json(e) ==
    LET t == [e EXCEPT !.Message = Trim(@)]
        r == MarshalEntry(t)
    IN  [entry |-> t, text |-> IF r.err THEN ErrorDocument ELSE r.text]

\* fmt.Sprintf(`{ "index": { "_index": "%s" } }`+"\n", e.ES_INDEX_NAME)
BulkHeader(index) == <<"{", "index", "_index", index, "}">>

\* for _, entry := range entrys { ... buf.WriteString(json + "\n") }
RECURSIVE BulkBody(_, _)
BulkBody(batch, index) ==
    IF batch = <<>> THEN <<>>
    ELSE BulkHeader(index) \o <<"\n">> \o Json(Head(batch)).text \o <<"\n">>
         \o BulkBody(Tail(batch), index)

\* sendToElasticsearch(entrys...) up to the HTTP request
EncodeBulk ==
    /\ codecPc = "call"
    /\ codecPc' = "sent"
    /\ gzipBuf' = Gzip(BulkBody(entrys, esIndexName))
    /\ entrys' = [i \in DOMAIN entrys |-> Json(entrys[i]).entry]
    /\ UNCHANGED <<cfg, env, levelVars, endpointUp, esIndexName, given, initVars, mainPc, useStdoutLogger,
                   useEsLogger, useFailLogger, filterLevels, wgStart, wgClose,
                   sendVars, esChanVars, fileChanVars, esVars, fileVars,
                   timeVars, panicked>>

(***************************************************************************)
(* Init called more than once.  Every call of es.init and file.init makes  *)
(* a new channel, stores it in the sink's field and starts an entryHandler; *)
(* a goroutine receives on the channel the field held when it last          *)
(* evaluated its receive.                                                   *)
(***************************************************************************)
MaxInits == 2

Configured(s) == IF s = "es" THEN cfg.EsConfig ELSE cfg.FileConfig

\* Init up to loggers.wgStart.Wait(): es.init and file.init.  stale tells
\* whether the channel file.init replaces still holds entries
InitCall ==
    /\ mainPc \in {"start", "running"}
    /\ inits < MaxInits
    /\ inits' = inits + 1
    /\ useStdoutLogger' = cfg.UseStdout
    /\ filterLevels' = cfg.FilterLevels
    /\ useEsLogger' = (useEsLogger \/ cfg.EsConfig)
    /\ useFailLogger' = (useFailLogger \/ cfg.FileConfig)
    /\ chanOf' = [s \in Sinks |-> IF Configured(s) THEN inits + 1 ELSE chanOf[s]]
    /\ \E stale \in BOOLEAN :
         LET woken == {x \in workers : x.sink = "file" /\ x.pc = "recv" /\ stale
                                         /\ cfg.FileConfig}
             spawned == {[sink |-> s, gen |-> inits + 1, chan |-> inits + 1,
                         pc |-> "spawned"] :
                             s \in {x \in Sinks : Configured(x)}}
         IN  workers' = ((workers \ woken) \cup spawned)
                            \cup {[w EXCEPT !.pc = "rebind"] : w \in woken}
    /\ wgStart' = wgStart + Cardinality({x \in Sinks : Configured(x)})
    /\ mainPc' = "init_wait"
    /\ UNCHANGED <<cfg, env, levelVars, endpointUp, codecVars, closedChans, wgClose, sendVars, esChanVars,
                   fileChanVars, esVars, fileVars, timeVars, panicked>>

\* loggers.wgStart.Wait() returns; the "logger initialized" message is left out
InitDone ==
    /\ mainPc = "init_wait"
    /\ wgStart = 0
    /\ mainPc' = "running"
    /\ UNCHANGED <<cfg, env, levelVars, endpointUp, codecVars, initVars, useStdoutLogger, useEsLogger,
                   useFailLogger, filterLevels, wgStart, wgClose, sendVars,
                   esChanVars, fileChanVars, esVars, fileVars, timeVars, panicked>>

Moved(w, pc) == (workers \ {w}) \cup {[w EXCEPT !.pc = pc]}

\* loggers.wgStart.Done()
WorkerStarted(w) ==
    /\ w.pc = "spawned"
    /\ wgStart' = wgStart - 1
    /\ workers' = Moved(w, "add")
    /\ UNCHANGED <<cfg, env, levelVars, endpointUp, codecVars, inits, chanOf, closedChans, mainPc,
                   useStdoutLogger, useEsLogger, useFailLogger, filterLevels,
                   wgClose, sendVars, esChanVars, fileChanVars, esVars, fileVars,
                   timeVars, panicked>>

\* loggers.wgClose.Add(1), then the first receive
WorkerAdd(w) ==
    /\ w.pc = "add"
    /\ wgClose' = wgClose + 1
    /\ workers' = (workers \ {w}) \cup {[w EXCEPT !.pc = "recv", !.chan = chanOf[w.sink]]}
    /\ UNCHANGED <<cfg, env, levelVars, endpointUp, codecVars, inits, chanOf, closedChans, mainPc,
                   useStdoutLogger, useEsLogger, useFailLogger, filterLevels,
                   wgStart, sendVars, esChanVars, fileChanVars, esVars, fileVars,
                   timeVars, panicked>>

\* the loop comes round and evaluates the channel field again: es.entryHandler
\* at every tick of its ticker, file.entryHandler after it has received an
\* entry that was left in its channel
WorkerLoop(w) ==
    /\ \/ w.sink = "es" /\ w.pc = "recv"
       \/ w.sink = "file" /\ w.pc = "rebind"
    /\ w.chan # chanOf[w.sink]
    /\ <<w.sink, w.chan>> \notin closedChans
    /\ workers' = (workers \ {w}) \cup {[w EXCEPT !.pc = "recv", !.chan = chanOf[w.sink]]}
    /\ UNCHANGED <<cfg, env, levelVars, endpointUp, codecVars, inits, chanOf, closedChans, mainPc,
                   useStdoutLogger, useEsLogger, useFailLogger, filterLevels,
                   wgStart, wgClose, sendVars, esChanVars, fileChanVars, esVars,
                   fileVars, timeVars, panicked>>

\* CLose up to loggers.wgClose.Wait(): close(e.esEntryChannel), close(f.fileEntryChannel)
CloseCall ==
    /\ mainPc = "running"
    /\ closedChans' = closedChans \cup
           {<<s, chanOf[s]>> : s \in {x \in Sinks : Configured(x)}}
    /\ mainPc' = "close_wait"
    /\ UNCHANGED <<cfg, env, levelVars, endpointUp, codecVars, inits, chanOf, workers, useStdoutLogger,
                   useEsLogger, useFailLogger, filterLevels, wgStart, wgClose,
                   sendVars, esChanVars, fileChanVars, esVars, fileVars, timeVars,
                   panicked>>

\* the receive finds its channel closed: return, and the deferred wgClose.Done()
WorkerExit(w) ==
    /\ w.pc \in {"recv", "rebind"}
    /\ <<w.sink, w.chan>> \in closedChans
    /\ wgClose' = wgClose - 1
    /\ workers' = Moved(w, "exited")
    /\ UNCHANGED <<cfg, env, levelVars, endpointUp, codecVars, inits, chanOf, closedChans, mainPc,
                   useStdoutLogger, useEsLogger, useFailLogger, filterLevels,
                   wgStart, sendVars, esChanVars, fileChanVars, esVars, fileVars,
                   timeVars, panicked>>

\* loggers.wgClose.Wait() returns
CloseReturn ==
    /\ mainPc = "close_wait"
    /\ wgClose = 0
    /\ mainPc' = "closed"
    /\ UNCHANGED <<cfg, env, levelVars, endpointUp, codecVars, initVars, useStdoutLogger, useEsLogger,
                   useFailLogger, filterLevels, wgStart, wgClose, sendVars,
                   esChanVars, fileChanVars, esVars, fileVars, timeVars, panicked>>

(***************************************************************************)
(* es.init: the defaults of the options left unset.  TimeToHold is in      *)
(* seconds.                                                                *)
(***************************************************************************)
\* e.EsConfig.TimeToHold = 10 * time.Second
DefaultTimeToHold == 10
\* e.EsConfig.EntriesToHold = 1000
DefaultEntriesToHold == 1000
\* e.EsConfig.MaxFailoverFiles = 10
DefaultMaxFailoverFiles == 10

\* the values an option is passed with: unset, the defaults, some others
TimeToHoldOptions == {0, 1, 5, 10, 60}
EntriesToHoldOptions == {0, 1, 10, 1000, 5000}
MaxFailoverFilesOptions == {0, 1, 5, 10, 100}

EsConfigs == [nil : {FALSE}, TimeToHold : TimeToHoldOptions,
              EntriesToHold : EntriesToHoldOptions,
              MaxFailoverFiles : MaxFailoverFilesOptions]

OrDefault(v, d) == IF v = 0 THEN d ELSE v

\* es.init(appShort, esConfig) up to make(chan *LogEntry, esConfig.EntriesToHold)
EsInit ==
    /\ esConfig.nil
    /\ ~esConfigArg.nil
    /\ esConfig' =
         [nil |-> FALSE,
          TimeToHold |-> OrDefault(esConfigArg.TimeToHold, DefaultTimeToHold),
          EntriesToHold |-> OrDefault(esConfigArg.EntriesToHold, DefaultEntriesToHold),
          MaxFailoverFiles |-> OrDefault(esConfigArg.MaxFailoverFiles,
                                         DefaultMaxFailoverFiles)]
    /\ UNCHANGED <<cfg, env, LevelDefault, nWrites, esConfigArg, endpointUp,
                   codecVars, initVars, mainPc, useStdoutLogger, useEsLogger,
                   useFailLogger, filterLevels, wgStart, wgClose, sendVars,
                   esChanVars, fileChanVars, esVars, fileVars, timeVars, panicked>>

(***************************************************************************)
(* Specifications.  The actions are those above in each; they differ in    *)
(* the configuration passed to Init and in what the environment does.      *)
(***************************************************************************)
Env(entries_, levels, early, ticks, netDown, diskFails, leftovers) ==
    [entries |-> entries_, levels |-> levels, early |-> early, ticks |-> ticks,
     netDown |-> netDown, diskFails |-> diskFails, leftovers |-> leftovers]

LifeSteps ==
    \/ Submit
    \/ \E p \in Senders : SendEs(p)
    \/ \E p \in Senders : SendFile(p)
    \/ InitBegin
    \/ InitEs
    \/ InitFile
    \/ InitWait
    \/ InitMsg
    \/ InitReturn
    \/ CloseEs
    \/ CloseFile
    \/ CloseWait
    \/ TimePasses

EsSteps ==
    \/ EsStarted
    \/ EsAdd
    \/ EsProcessFailover
    \/ EsReceive
    \/ EsClosed
    \/ EsTick

FileSteps ==
    \/ FileStarted
    \/ FileAdd
    \/ FileReceive
    \/ FileWrite
    \/ FileClosed

\* Every configuration, with an endpoint that answers and a disk that works,
\* over a time too short for a compress-and-remove task to come due.
MaxEntriesLife == 2
MaxTicksLife == 2

LifeConfigs == {c \in Configs : c.CreateNewAfter > 0 => c.FileConfig}

Init == InitWith(LifeConfigs,
                 {Env(MaxEntriesLife, {LevelDebug, LevelError}, TRUE,
                      MaxTicksLife, FALSE, FALSE, FALSE)})

Next == LifeSteps \/ EsSteps \/ FileSteps

Spec == Init /\ [][Next]_vars

\* The network sink alone, with an endpoint that may refuse any request and
\* a disk that may fail any operation.
NetConfig == [UseStdout |-> FALSE, EsConfig |-> TRUE, FileConfig |-> FALSE,
              FilterLevels |-> {}, ShowInit |-> FALSE, CreateNewAfter |-> 0]

InitNet == InitWith({NetConfig},
                    {Env(MaxEntries, {LevelDebug}, FALSE, MaxTicks, TRUE, TRUE, TRUE)})

NextNet == LifeSteps \/ EsSteps

SpecNet == InitNet /\ [][NextNet]_vars

\* Both sinks, with an endpoint that may refuse any request and a disk that
\* works; the log file is changed after two clock units.
MaxEntriesSinks == 2
MaxTicksSinks == 5

SinksConfig == [UseStdout |-> FALSE, EsConfig |-> TRUE, FileConfig |-> TRUE,
                FilterLevels |-> {}, ShowInit |-> FALSE, CreateNewAfter |-> 2]

InitSinks == InitWith({SinksConfig},
                      {Env(MaxEntriesSinks, {LevelDebug}, FALSE, MaxTicksSinks,
                           TRUE, FALSE, FALSE)})

NextSinks == LifeSteps \/ EsSteps \/ FileSteps

SpecSinks == InitSinks /\ [][NextSinks]_vars

\* The file sink alone, with a disk that may fail any operation, over a time
\* long enough for a compress-and-remove task to come due; the application
\* does not call CLose.  Time passes, and the runtime runs a timer function
\* that is due.
MaxEntriesFile == 2
MaxTicksFile == 9

FileOnlyConfig == [UseStdout |-> FALSE, EsConfig |-> FALSE, FileConfig |-> TRUE,
                   FilterLevels |-> {}, ShowInit |-> FALSE, CreateNewAfter |-> 1]

InitFileOnly == InitWith({FileOnlyConfig},
                         {Env(MaxEntriesFile, {LevelDebug}, FALSE, MaxTicksFile,
                              FALSE, TRUE, FALSE)})

NextFile ==
    \/ Submit
    \/ \E p \in Senders : SendEs(p)
    \/ \E p \in Senders : SendFile(p)
    \/ InitBegin
    \/ InitEs
    \/ InitFile
    \/ InitWait
    \/ InitMsg
    \/ InitReturn
    \/ TimePasses
    \/ FileStarted
    \/ FileAdd
    \/ FileReceive
    \/ FileWrite
    \/ CompressTask

SpecFile ==
    /\ InitFileOnly
    /\ [][NextFile]_vars
    /\ WF_vars(TimePasses)
    /\ WF_vars(CompressTask)

\* One call of sendToElasticsearch for every batch of up to MaxBatch entries
\* and both index names.
IndexNames == {"logs", "app"}

InitCodec ==
    /\ InitState({NetConfig},
                 {Env(0, {LevelDebug}, FALSE, 0, FALSE, FALSE, FALSE)})
    /\ codecPc = "call"
    /\ esIndexName \in IndexNames
    /\ entrys \in Batches
    /\ gzipBuf = Gzip(<<>>)
    /\ given = entrys
    /\ esConfigArg = NilConfig

NextCodec == EncodeBulk

SpecCodec == InitCodec /\ [][NextCodec]_vars

\* Init called up to MaxInits times with every configuration that has a
\* sink, then CLose.
InitReinit ==
    InitWith({c \in LifeConfigs : c.EsConfig \/ c.FileConfig},
             {Env(0, {LevelDebug}, FALSE, 0, FALSE, FALSE, FALSE)})

NextReinit ==
    \/ InitCall
    \/ InitDone
    \/ \E w \in workers : WorkerStarted(w)
    \/ \E w \in workers : WorkerAdd(w)
    \/ \E w \in workers : WorkerLoop(w)
    \/ CloseCall
    \/ \E w \in workers : WorkerExit(w)
    \/ CloseReturn

SpecReinit == InitReinit /\ [][NextReinit]_vars

\* The network sink alone, started on the records an earlier run left, with
\* an endpoint that refuses requests until it recovers and a disk that may
\* fail any operation, while the application logs nothing.  The worker
\* goroutine is scheduled whenever it can take a step, and time passes.
MaxTicksRetry == 8

InitRetry == InitWith({NetConfig},
                      {Env(0, {LevelDebug}, FALSE, MaxTicksRetry, TRUE, TRUE, TRUE)})

NextRetry ==
    \/ InitBegin
    \/ InitEs
    \/ InitFile
    \/ InitWait
    \/ InitMsg
    \/ InitReturn
    \/ CloseEs
    \/ CloseFile
    \/ CloseWait
    \/ TimePasses
    \/ EsStarted
    \/ EsAdd
    \/ EsProcessFailover
    \/ EsClosed
    \/ EsTick
    \/ EndpointRecovers

SpecRetry ==
    /\ InitRetry
    /\ [][NextRetry]_vars
    /\ WF_vars(TimePasses)
    /\ WF_vars(EsStarted)
    /\ WF_vars(EsAdd)
    /\ WF_vars(EsProcessFailover)
    /\ WF_vars(EsTick)
    /\ WF_vars(EsClosed)

\* The file sink and stdout, with a disk that works, while the application changes the default level and logs through
\* the standard logger and with explicit levels.
MaxEntriesLevels == 2
MaxTicksLevels == 1

LevelsConfig == [UseStdout |-> TRUE, EsConfig |-> FALSE, FileConfig |-> TRUE,
                 FilterLevels |-> {}, ShowInit |-> TRUE, CreateNewAfter |-> 0]

InitLevels == InitWith({LevelsConfig},
                       {Env(MaxEntriesLevels, {LevelDebug, LevelError}, FALSE,
                            MaxTicksLevels, FALSE, FALSE, FALSE)})

NextLevels == LifeSteps \/ FileSteps \/ WriteCall \/ SetDefaultLevel

SpecLevels == InitLevels /\ [][NextLevels]_vars

\* es.init for every combination of the option values.
InitDefaults ==
    /\ InitState({NetConfig},
                 {Env(0, {LevelDebug}, FALSE, 0, FALSE, FALSE, FALSE)})
    /\ codecPc = "off"
    /\ esIndexName = "logs"
    /\ entrys = <<>>
    /\ gzipBuf = Gzip(<<>>)
    /\ given = <<>>
    /\ esConfigArg \in EsConfigs

NextDefaults == EsInit

SpecDefaults == InitDefaults /\ [][NextDefaults]_vars

(***************************************************************************)
(* Properties.                                                             *)
(***************************************************************************)
Ids(seq) == [i \in 1..Len(seq) |-> seq[i].id]

Range(seq) == {seq[i] : i \in 1..Len(seq)}

\* a can be obtained from b by deleting elements
RECURSIVE IsSubseq(_, _)
IsSubseq(a, b) ==
    IF a = <<>> THEN TRUE
    ELSE IF b = <<>> THEN FALSE
    ELSE IF Head(a) = Head(b) THEN IsSubseq(Tail(a), Tail(b))
    ELSE IsSubseq(a, Tail(b))

WorkerGone(pc) == pc \in {"off", "exited"}

\* C1: CLose returns only after every sink worker that Init started has
\* drained its channel and exited, also when CLose is called right after
\* Init returned.
C1_CloseWaitsForWorkers ==
    mainPc = "closed" => WorkerGone(esPc) /\ WorkerGone(filePc)

\* the sinks an entry has to reach: before Init only stdout is enabled and
\* nothing is filtered; after Init the Config decides
Passes(r) == r.phase = "pre" \/ r.e.level \notin cfg.FilterLevels

DueStdout(r) == Passes(r) /\ (r.phase = "pre" \/ cfg.UseStdout)

DueEs(r) == Passes(r) /\ r.phase = "post" /\ cfg.EsConfig

DueFile(r) == Passes(r) /\ r.phase = "post" /\ cfg.FileConfig

\* C8: an entry passed to send is observed by a sink (written to stdout,
\* pushed on the network channel, pushed on the file channel) if and only if
\* that sink is enabled and the entry's level is not filtered: no sink sees
\* an entry it is not due, and once send has returned every sink that is due
\* the entry has seen it.
C8_Routing ==
    \A r \in submitted :
        LET id == r.e.id
            onStdout == id \in stdoutLog
            onEs == id \in Range(Ids(esPushed))
            onFile == id \in Range(Ids(filePushed))
        IN /\ onStdout => DueStdout(r)
           /\ onEs => DueEs(r)
           /\ onFile => DueFile(r)
           /\ id \in returned =>
                /\ onStdout <=> DueStdout(r)
                /\ onEs <=> DueEs(r)
                /\ onFile <=> DueFile(r)

\* a filtered entry that reached no sink, next to an entry that reached all
\* three sinks, with every sink enabled
C8_Witness ==
    /\ cfg.UseStdout /\ cfg.EsConfig /\ cfg.FileConfig
    /\ \E r \in submitted :
         /\ r.phase = "post"
         /\ r.e.level \in cfg.FilterLevels
         /\ r.e.id \in returned
         /\ r.e.id \notin stdoutLog \cup Range(Ids(esPushed)) \cup Range(Ids(filePushed))
    /\ \E r \in submitted :
         /\ r.e.id \in returned
         /\ r.e.id \in stdoutLog \cap Range(Ids(esPushed)) \cap Range(Ids(filePushed))

\* C9: no send is fatal to the process: no send is attempted on a channel
\* that has been closed, neither by a submit after CLose nor by the entry
\* the file worker emits when it opens a log file.
C9_NoSendOnClosedChannel == panicked = "none"

\* the last step of the network worker was a flush whose delivery failed
FailedFlush == ev.kind = "flush" /\ ~ev.ok

\* C2: a flush whose delivery fails, with the failover store below its cap
\* and the save succeeding, creates exactly one new record; the record holds
\* exactly the entries of the batch in the same order; no other record is
\* created, changed or removed.
C2_OneRecordPerFailedBatch ==
    (FailedFlush /\ ev.err = "") =>
        /\ Cardinality(ev.before) < MaxFailoverFiles
        /\ \E r \in dir :
             /\ \A o \in ev.before : o.n # r.n
             /\ dir = ev.before \cup {r}
             /\ r.ok
             /\ JsonUnmarshal(r.data) = ev.batch

\* a failed batch of two entries saved next to an older record
C2_Witness ==
    /\ FailedFlush /\ ev.err = ""
    /\ Len(ev.batch) >= 2
    /\ ev.before # {}
    /\ Cardinality(dir) = Cardinality(ev.before) + 1

\* ids of the entries a record holds
RecordIds(r) == {r.data[i].message : i \in 1..Len(r.data)}

\* C3: the failover directory never holds more than MaxFailoverFiles
\* records; a batch that fails delivery while the directory holds
\* MaxFailoverFiles records is dropped: no record is created for it and
\* every record is left as it was.
C3_StoreBounded ==
    /\ Cardinality(dir) <= MaxFailoverFiles
    /\ (FailedFlush /\ Cardinality(ev.before) = MaxFailoverFiles) =>
         /\ dir = ev.before
         /\ ev.err # ""
         /\ \A r \in dir : RecordIds(r) \cap Range(Ids(ev.batch)) = {}

\* a failed batch dropped at the cap
C3_Witness ==
    /\ FailedFlush
    /\ Cardinality(ev.before) = MaxFailoverFiles
    /\ ev.err = "limit"
    /\ Cardinality(dir) = MaxFailoverFiles

\* the record of a non-empty directory that was created first
Oldest(d) == CHOOSE r \in d : \A o \in d : r.n <= o.n

\* C4: processFailoverFiles always works on the oldest record of the
\* directory: the record it resends (or removes as corrupt) is the one
\* created first, and after a failed resend that record is still the oldest,
\* so no newer record is attempted while it keeps failing.
C4_OldestFirst ==
    (ev.kind \in {"resend", "corrupt"}) =>
        /\ ev.before # {}
        /\ ev.target = Oldest(ev.before).n
        /\ (ev.kind = "resend") =>
             ev.batch = JsonUnmarshal(Oldest(ev.before).data)
        /\ (ev.kind = "resend" /\ ~ev.ok) =>
             /\ dir # {}
             /\ ev.target = Oldest(dir).n

\* a failed resend of the oldest of two records
C4_Witness ==
    /\ ev.kind = "resend" /\ ~ev.ok
    /\ Cardinality(dir) >= 2
    /\ \E r \in dir : r.n > ev.target

\* C5: a record leaves the directory once, and only in the step in which a
\* resend delivered its batch or in which its content failed to deserialize;
\* a resend whose delivery fails leaves the directory as it was; a record
\* that stays keeps its content, and no file name is used a second time.
C5_RemovedOnce ==
    [][ /\ (dir \ dir' # {}) =>
             \E r \in dir :
                /\ dir' = dir \ {r}
                /\ removed' = Append(removed, r.n)
                /\ r.n \notin Range(removed)
                /\ ev'.target = r.n
                /\ \/ /\ ev'.kind = "resend" /\ ev'.ok /\ r.ok
                      /\ delivered' = delivered \o
                             AsDelivered(JsonUnmarshal(r.data), "failover", nAttempts')
                   \/ ev'.kind = "corrupt" /\ ~r.ok
        /\ (nAttempts' # nAttempts /\ ev'.kind = "resend" /\ ~ev'.ok) => dir' = dir
        /\ \A r \in dir, o \in dir' : r.n = o.n => r = o
        /\ \A o \in dir' \ dir : o.n \notin Range(removed)
        /\ removed' # removed => dir \ dir' # {}
      ]_vars

\* a failed resend after a record has been removed
C5_Witness ==
    /\ ev.kind = "resend" /\ ~ev.ok
    /\ removed # <<>>
    /\ \E r \in dir : r.n = ev.target

\* a step of the network worker that flushes a batch
Flushes == flushed' # flushed

\* C6 as stated: a batch is flushed when it reaches EntriesToHold entries or
\* when a tick finds it non-empty, and after every such flush the batch is
\* empty and the next tick is a full TimeToHold away.
C6_BothTriggersReset ==
    [][ (Flushes /\ ev'.trigger \in {"count", "tick"}) =>
             /\ entries' = <<>>
             /\ tickIn' = TimeToHold
      ]_vars

\* C6, amended: the worker never waits with EntriesToHold entries or more;
\* a count-triggered flush sends a batch of exactly EntriesToHold entries
\* and restarts the ticker, so that its next tick is a full TimeToHold away;
\* a tick that finds the batch non-empty sends it and leaves the ticker
\* running, so that its next tick is TimeToHold after the tick before;
\* after every flush the batch is empty.
C6_FlushTriggers ==
    /\ [](esPc \in {"loop", "select"} => Len(entries) < EntriesToHold)
    /\ [][ /\ Flushes =>
                /\ entries' = <<>>
                /\ ev'.kind = "flush"
                /\ ev'.trigger \in {"count", "tick", "close"}
                /\ (ev'.trigger = "count") =>
                     /\ Len(ev'.batch) = EntriesToHold
                     /\ tickIn' = TimeToHold
                /\ (ev'.trigger = "tick") =>
                     /\ tickC
                     /\ ev'.batch = entries
                     /\ tickIn' = TickInAfter(now' - now)
           /\ (ticksSeen' # ticksSeen /\ entries # <<>>) =>
                flushed' = flushed \o entries
         ]_vars

\* after a tick-triggered flush the next tick is less than TimeToHold away
C6_Witness ==
    /\ ev.kind = "flush" /\ ev.trigger = "tick"
    /\ entries = <<>>
    /\ tickIn \in 1..(TimeToHold - 1)

\* what the endpoint accepted in the request numbered k
DeliveredBy(k) == SelectSeq(delivered, LAMBDA x : x.att = k)

\* the run started with an empty failover directory
StoreWasEmpty ==
    /\ \A r \in dir : r.n >= ClockStart
    /\ \A n \in Range(removed) : n >= ClockStart

\* the case of C7: the store was empty, the worker has handled no tick, the
\* sink has not been closed
C7_Case == StoreWasEmpty /\ ticksSeen = 0 /\ ~esClosed

\* C7 as stated: EntriesToHold entries pushed give exactly one delivery
\* attempt, made when the last of them is received and carrying them in
\* order; fewer entries give none.
C7_ExactlyOneAttempt ==
    C7_Case =>
        /\ (Len(esPushed) < EntriesToHold) => nAttempts = 0
        /\ (Len(esPushed) = EntriesToHold) =>
             /\ (esEntryChannel # <<>>) => nAttempts = 0
             /\ (esEntryChannel = <<>>) => nAttempts = 1 /\ flushed = esPushed

\* C7, amended: EntriesToHold entries pushed give exactly one flush, made
\* when the last of them is received; its delivery attempt carries them in
\* order; further attempts are made only when that attempt failed and the
\* batch was saved, and each of them resends the same entries in the same
\* order; fewer entries give no attempt.
C7_CountFlush ==
    C7_Case =>
        /\ (Len(esPushed) < EntriesToHold) => nAttempts = 0
        /\ (Len(esPushed) = EntriesToHold) =>
             /\ (esEntryChannel # <<>>) => nAttempts = 0
             /\ (esEntryChannel = <<>>) =>
                  nAttempts >= 1 /\ flushed = esPushed /\ entries = <<>>
             /\ (ev.kind \in {"flush", "resend"}) => ev.batch = esPushed
             /\ (ev.kind = "flush") => ev.trigger = "count"
             /\ (nAttempts > 1) =>
                  /\ dir # {} \/ removed # <<>>
                  /\ \A i \in 1..Len(delivered) : delivered[i].via = "failover"
             /\ \A k \in 1..nAttempts :
                  Ids(DeliveredBy(k)) \in {<<>>, Ids(esPushed)}

\* the batch was delivered by a resend, after its first attempt failed
C7_Witness ==
    /\ C7_Case
    /\ Len(esPushed) = EntriesToHold
    /\ nAttempts >= 2
    /\ ev.kind = "resend" /\ ev.ok
    /\ Ids(DeliveredBy(nAttempts)) = Ids(esPushed)

IsDirect(x) == x.via = "direct"

FileInOrder ==
    /\ IsSubseq(Ids(fileLines), Ids(filePushed))
    /\ \A name \in DOMAIN logFiles : IsSubseq(logFiles[name], Ids(filePushed))

\* C10 as stated: the file sink appends lines in the order the entries were
\* pushed on its channel, and the endpoint receives entries in the order
\* they were pushed on the network channel, batches that went through a
\* failover record included.
C10_DeliveredInPushOrder ==
    /\ FileInOrder
    /\ IsSubseq(Ids(delivered), Ids(esPushed))

\* C10, amended: the file sink appends lines in push order; the network
\* worker receives entries and forms and flushes batches in push order; the
\* entries of one request reach the endpoint in push order, and so do the
\* entries delivered directly, inside a batch and across batches; a batch
\* that went through a failover record may reach the endpoint after entries
\* pushed later.
C10_FifoWithinSink ==
    /\ FileInOrder
    /\ Ids(flushed) \o Ids(entries) \o Ids(esEntryChannel) = Ids(esPushed)
    /\ IsSubseq(Ids(SelectSeq(delivered, IsDirect)), Ids(esPushed))
    /\ \A k \in 1..nAttempts : IsSubseq(Ids(DeliveredBy(k)), Ids(esPushed))

\* the place of an entry in the order of the pushes on the network channel
PushedAt(id) == CHOOSE k \in 1..Len(esPushed) : esPushed[k].id = id

\* a batch delivered from its failover record after an entry pushed later,
\* with lines written to the log file
C10_Witness ==
    /\ \E i, j \in 1..Len(delivered) :
         /\ i < j
         /\ PushedAt(delivered[i].id) > PushedAt(delivered[j].id)
         /\ delivered[i].via = "direct"
         /\ delivered[j].via = "failover"
    /\ Len(fileLines) >= 2

\* a sender waits to push on a full channel that is open
BlockedOnEs(p) ==
    /\ sendPc[p] = "es" /\ useEsLogger /\ ~esClosed
    /\ Len(esEntryChannel) >= EntriesToHold

BlockedOnFile(p) ==
    /\ sendPc[p] = "file" /\ useFailLogger /\ ~fileClosed
    /\ Len(fileEntryChannel) >= FileChanCap

LogNames == {logName(t) : t \in ClockStart..(ClockStart + MaxTicksFile)}

\* the file named n was the active file when the sink rotated, and its
\* compress-and-remove task comes due within the time modelled
RotatedOut(n) == \E t \in tasks : t.name = n /\ t.due <= Horizon

\* everything that was written to the file named n
Written(n) == Ids(SelectSeq(fileLines, LAMBDA x : x.name = n /\ x.landed))

\* the path of n is absent and its sibling .gz holds what was written to it
Replaced(n) ==
    /\ n \notin DOMAIN logFiles
    /\ n \in DOMAIN gzFiles
    /\ gzFiles[n].whole
    /\ Gunzip(gzFiles[n].lines) = Written(n)

\* C12 as stated: after a rotation the previous file is eventually absent
\* from disk and its sibling .gz holds everything that was written to it.
C12_EventuallyReplaced ==
    \A n \in LogNames : RotatedOut(n) ~> Replaced(n)


\* C12, amended: after a rotation the task scheduled for the previous file
\* eventually runs, if the process is still running when it is due; the task
\* compresses the file and then removes it, whether or not the compression
\* succeeded; when compressFile succeeds the .gz holds everything that was
\* written to the file, and when os.Remove succeeds the path is absent.
C12_EventuallyCompressed ==
    /\ \A n \in LogNames : RotatedOut(n) ~> ~RotatedOut(n)
    /\ [][ \A t \in tasks \ tasks' :
             /\ (t.name \in DOMAIN logFiles /\ t.name \in DOMAIN gzFiles'
                   /\ gzFiles'[t.name].whole) =>
                    Gunzip(gzFiles'[t.name].lines) = Written(t.name)
             /\ \/ t.name \notin DOMAIN logFiles'
                \/ logFiles' = logFiles
         ]_vars

\* a rotated-out file has been replaced by its .gz, which holds its lines
C12_Witness ==
    \E n \in LogNames :
        /\ Replaced(n)
        /\ Written(n) # <<>>
        /\ f.name # n

\* the body split at its newlines; every line of the body ends with one
RECURSIVE SplitLines(_, _)
SplitLines(text, cur) ==
    IF text = <<>> THEN (IF cur = <<>> THEN <<>> ELSE <<cur>>)
    ELSE IF Head(text) = "\n" THEN <<cur>> \o SplitLines(Tail(text), <<>>)
    ELSE SplitLines(Tail(text), Append(cur, Head(text)))

BodyLines == SplitLines(Gunzip(gzipBuf), <<>>)

\* the body is one (header, document) pair of lines per entry, in the order
\* of the batch, and every header names the configured index
PairedLines ==
    /\ Len(BodyLines) = 2 * Len(given)
    /\ \A i \in DOMAIN given : BodyLines[2 * i - 1] = BulkHeader(esIndexName)

RECURSIVE Unescape(_)
Unescape(t) ==
    IF t = <<>> THEN <<>>
    ELSE IF Len(t) >= 2 /\ t[1] = "\\" /\ t[2] = "n"
         THEN <<"\n">> \o Unescape(SubSeq(t, 3, Len(t)))
         ELSE <<Head(t)>> \o Unescape(Tail(t))

\* the entry a document decodes to
DecodeEntry(doc) ==
    LET close == CHOOSE k \in 6..Len(doc) :
                     doc[k] = "\"" /\ \A j \in (k + 1)..Len(doc) : doc[j] # "\""
    IN  [Level |-> doc[3],
         Message |-> Unescape(SubSeq(doc, 6, close - 1)),
         Fields |-> IF doc[Len(doc) - 1] = "fields" THEN "map" ELSE "nil"]

Running(s) == {w \in workers : w.sink = s /\ w.pc # "exited"}

\* C14: once Init has returned, whether it was called once or twice, every
\* configured sink has exactly one running worker, and that worker consumes
\* the sink's one submission channel.
C14_InitIdempotent ==
    mainPc = "running" =>
        \A s \in Sinks :
            Configured(s) =>
                /\ Cardinality(Running(s)) = 1
                /\ \A w \in Running(s) : w.pc = "recv" => w.chan = chanOf[s]

\* the time the worker needs at most to resend every record: one period of
\* the ticker and one request for each record
RetryTime == TimeToHold + MaxSendTime * Cardinality(dir)

\* the endpoint has recovered while the worker runs and holds records, and
\* the time modelled is long enough for the resends
Recovered ==
    /\ endpointUp
    /\ esPc \in {"loop", "select"}
    /\ ~esClosed
    /\ dir # {}
    /\ now + RetryTime <= Horizon

DiskFailure ==
    \/ ev.kind = "idle" /\ ev.before # {}
    \/ ev.kind = "resend" /\ ev.ok /\ dir = ev.before
    \/ ev.kind = "corrupt" /\ dir = ev.before

\* es.entryHandler runs processFailoverFiles at the top of its loop
LoopStep ==
    /\ esPc = "loop"
    /\ esPc' = "select" \/ nAttempts' # nAttempts \/ dir' # dir

Created == {r \in dir' : \A o \in dir : o.n # r.n}

\* C16: a record saveBatchToDisk writes has a file name that sorts after the
\* name of every record written before it, and the records of the directory
\* sorted by name are in the order they were created.
C16_NamesInCreationOrder ==
    /\ [](\A r1, r2 \in dir :
             r1.n < r2.n <=> StrLess(fileName(r1.n), fileName(r2.n)))
    /\ [][ \A r \in Created : \A o \in dir :
             /\ o.n < r.n
             /\ StrLess(fileName(o.n), fileName(r.n))
             /\ ~StrLess(fileName(r.n), fileName(o.n)) ]_vars

\* a failed flush has added a record to a directory that held one
C16_Witness ==
    /\ FailedFlush
    /\ ev.err = ""
    /\ Cardinality(dir) = 2
    /\ \E r \in dir : r.n = ev.target /\ \E o \in ev.before : o.n < r.n

\* C17: no operation of the sink pipeline, encoding an entry for delivery
\* included, changes a field of an entry: after sendToElasticsearch the
\* entries of the batch are as they were passed.
C17_EntriesUnchanged == codecPc = "sent" => entrys = given

\* DEBUG < INFO < WARN < ERROR
Rank(l) ==
    CASE l = LevelDebug -> 1
      [] l = LevelInfo -> 2
      [] l = LevelWarn -> 3
      [] l = LevelError -> 4
      [] OTHER -> 0

\* the levels of the messages this step passes the filter of send with: they
\* are written to stdout and go on to the sinks
WrittenLevels ==
    {s.e.level : s \in {x \in submitted' \ submitted :
                            x.e.id \in stdoutLog' \/ x.e.id \notin returned'}}

\* C18: after SetDefaultLevel(L) with L one of DEBUG, INFO, WARN, ERROR, only
\* messages whose level is L or above are written to stdout or to a sink.
C18_LevelThreshold ==
    [][ LevelDefault # LevelNone =>
            \A l \in WrittenLevels : Rank(l) >= Rank(LevelDefault) ]_vars

\* the step is a call of customWriter.Write: by the application, by Init for
\* its message, or by file.entryHandler for the message about a new file
FacadeStep ==
    \/ nWrites' # nWrites
    \/ mainPc = "init_msg" /\ mainPc' = "init_ret"
    \/ filePc = "recv" /\ filePc' = "logsend"

\* the step is a call with an explicit level by the application
ExplicitStep == quota' < quota /\ nWrites' = nWrites

\* C19: while the default level is NONE, a message written through
\* customWriter.Write is not handed to send, and so reaches no sink, whereas
\* a call with an explicit level is handed to send and written to stdout
\* and passed on to the sinks.
C19_NoneSilencesFacade ==
    [][ LevelDefault = LevelNone =>
          /\ FacadeStep =>
               /\ submitted' = submitted
               /\ stdoutLog' = stdoutLog
               /\ sendPc' = sendPc
               /\ esPushed' = esPushed /\ filePushed' = filePushed
          /\ ExplicitStep =>
               /\ \E s \in submitted' \ submitted : s.e.id = nextId
               /\ nextId \in stdoutLog'
               /\ sendPc'["prod"] = "es" /\ sendEntry'["prod"].id = nextId
      ]_vars

\* the default level was NONE when Init wrote its message, when the file
\* worker opened its file and when the application called log.Println: the
\* only entry there is comes from a call with an explicit level, and it has
\* been written to the file
C19_Witness ==
    /\ LevelDefault = LevelNone
    /\ nWrites = 1
    /\ quota = 0
    /\ submitted = {[e |-> [id |-> 1, level |-> LevelError], phase |-> "post"]}
    /\ Ids(fileLines) = <<1>>

\* EsConfig.TimeToHold: "If not set, Default is 5 seconds."
DocumentedTimeToHold == 5

\* C20: es.init replaces an option left unset by its documented default,
\* TimeToHold by 5 seconds, EntriesToHold by 1000, MaxFailoverFiles by 10,
\* and leaves the options that are set as they are.
C20_DocumentedDefaults ==
    ~esConfig.nil =>
        /\ esConfig.TimeToHold =
               OrDefault(esConfigArg.TimeToHold, DocumentedTimeToHold)
        /\ esConfig.EntriesToHold = OrDefault(esConfigArg.EntriesToHold, 1000)
        /\ esConfig.MaxFailoverFiles = OrDefault(esConfigArg.MaxFailoverFiles, 10)

\* es.entryHandler observes that its channel is closed
ObservesClosure == esPc = "select" /\ esPc' = "exited"

\* C21: when the worker observes the closure of its channel it flushes the
\* entries it holds exactly once if there are any, and makes no flush if
\* there are none, then terminates; after that it makes no resend attempt,
\* no flush and no receive, and leaves the failover directory as it is.
C21_FinalFlushOnce ==
    [][ /\ ObservesClosure =>
            /\ esClosed /\ esEntryChannel = <<>>
            /\ IF entries # <<>>
               THEN /\ flushed' = flushed \o entries
                    /\ nAttempts' = nAttempts + 1
                    /\ ev'.kind = "flush" /\ ev'.trigger = "close"
                    /\ ev'.batch = entries
               ELSE /\ flushed' = flushed
                    /\ nAttempts' = nAttempts
                    /\ dir' = dir
            /\ entries' = <<>>
        /\ esPc = "exited" =>
            /\ esPc' = "exited"
            /\ nAttempts' = nAttempts
            /\ flushed' = flushed
            /\ delivered' = delivered
            /\ dir' = dir
            /\ esEntryChannel' = esEntryChannel
            /\ removed' = removed
      ]_vars

\* the worker has terminated after flushing, on closure, a batch that the
\* endpoint refused, while a record it never resent is still in the directory
C21_Witness ==
    /\ esPc = "exited"
    /\ ev.kind = "flush" /\ ev.trigger = "close" /\ ~ev.ok
    /\ Cardinality(dir) = 2

\* the step takes an entry from the submission channel, handles a tick or
\* observes the closure: one case of the select
SelectStep ==
    \/ Len(esEntryChannel') < Len(esEntryChannel)
    \/ ticksSeen' # ticksSeen
    \/ ObservesClosure

\* the last step of the worker was a processFailoverFiles that returned false
ResendFailedLast ==
    \/ ev.kind \in {"idle", "corrupt"}
    \/ ev.kind = "resend" /\ ~ev.ok

\* the last step of the worker was a processFailoverFiles that returned true
ResendSucceededLast == ev.kind = "resend" /\ ev.ok

FlushStep == flushed' # flushed

\* the intact records of directory d that hold the batch
Holding(d, batch) == {r \in d : r.ok /\ JsonUnmarshal(r.data) = batch}

\* the flush delivered the batch: no record is created and none is changed
FlushDelivered ==
    /\ ev'.ok
    /\ dir' = dir
    /\ delivered' = delivered \o AsDelivered(ev'.batch, "direct", nAttempts')

\* the delivery failed and the batch was saved as one record
FlushSaved ==
    /\ ~ev'.ok /\ ev'.err = ""
    /\ delivered' = delivered
    /\ \E r \in Holding(dir', ev'.batch) :
           /\ r.n = ev'.target
           /\ dir' = {o \in dir : o.n # r.n} \cup {r}

\* the delivery failed and the save failed: the error is reported, no intact
\* record holds the batch, and every record there was is left as it is
FlushDropped ==
    /\ ~ev'.ok /\ ev'.err # ""
    /\ delivered' = delivered
    /\ Holding(dir', ev'.batch) = {}
    /\ \A o \in dir : o.n # ev'.target => o \in dir'
    /\ \A r \in dir' \ dir : r.n = ev'.target /\ ~r.ok /\ ev'.err = "partial"

\* C23: every flush ends in exactly one of three outcomes: the batch is
\* delivered and no record is created; the delivery fails and the batch is
\* saved as one record; the delivery and the save fail, the error is
\* reported and the batch is dropped.  A dropped batch is never retried:
\* records are created by flushes only, and a resend takes its batch from
\* an intact record.  The worker goes on with its loop, or returns when the
\* flush was the one made on closure.
C23_FlushOutcomes ==
    [][ /\ FlushStep =>
            /\ ev'.kind = "flush"
            /\ flushed' = flushed \o ev'.batch
            /\ nAttempts' = nAttempts + 1
            /\ \/ FlushDelivered /\ ~FlushSaved /\ ~FlushDropped
               \/ ~FlushDelivered /\ FlushSaved /\ ~FlushDropped
               \/ ~FlushDelivered /\ ~FlushSaved /\ FlushDropped
            /\ esPc' = IF ev'.trigger = "close" THEN "exited" ELSE "loop"
        /\ (dir' \ dir # {}) => FlushStep
        /\ (nAttempts' # nAttempts /\ ~FlushStep) =>
            /\ ev'.kind = "resend"
            /\ \E r \in dir : r.ok /\ r.n = ev'.target
                              /\ JsonUnmarshal(r.data) = ev'.batch
      ]_vars

\* a flush has met a write error: the batch is dropped and the file the
\* failed write left holds no batch
C23_Witness ==
    /\ FailedFlush
    /\ ev.err = "partial"
    /\ \E r \in dir : r.n = ev.target /\ ~r.ok
    /\ Cardinality(dir) = Cardinality(ev.before) + 1

\* processFailoverFiles reads the oldest record and cannot parse it
CorruptStep ==
    /\ LoopStep
    /\ dir # {}
    /\ ~Oldest(dir).ok
    /\ ev'.kind # "idle"

\* C24 as stated: when the oldest record cannot be parsed the record is
\* deleted at once, no delivery is attempted, every other record is left as
\* it is and the worker goes on to its select.
C24_CorruptDeleted ==
    [][ CorruptStep =>
            /\ dir' = dir \ {Oldest(dir)}
            /\ nAttempts' = nAttempts
            /\ delivered' = delivered
            /\ esPc' = "select" ]_vars

\* C24, amended: when the oldest record cannot be parsed, os.Remove is
\* called for it and its result is not looked at: the record is deleted, or
\* it stays and is the oldest record again on the next iteration; no
\* delivery is attempted, every other record is left as it is, and the
\* worker goes on to its select.
C24_CorruptRemoveTried ==
    [][ CorruptStep =>
            /\ ev'.kind = "corrupt" /\ ev'.target = Oldest(dir).n
            /\ \/ dir' = dir \ {Oldest(dir)}
                  /\ removed' = Append(removed, Oldest(dir).n)
               \/ dir' = dir /\ removed' = removed /\ Oldest(dir') = Oldest(dir)
            /\ nAttempts' = nAttempts
            /\ delivered' = delivered
            /\ flushed' = flushed
            /\ esPc' = "select" ]_vars

\* a record that could not be parsed has been deleted, and a younger record
\* is left in the directory, not yet attempted
C24_Witness ==
    /\ ev.kind = "corrupt"
    /\ esPc = "select"
    /\ dir # {}
    /\ \E r \in ev.before : r.n = ev.target /\ ~r.ok /\ dir = ev.before \ {r}

\* the worker takes an entry from the file channel
FileReceived == Len(fileEntryChannel') < Len(fileEntryChannel)

\* no file has been opened yet, or CreateNewAfter is non-zero and the age of
\* the active file exceeds it
RotationDue ==
    \/ f.name = 0
    \/ cfg.CreateNewAfter # 0 /\ now - fCreatedAt > cfg.CreateNewAfter

\* newLogfile has opened a file and the worker is about to write the entry
RotationDone == filePc = "recv" /\ filePc' = "logsend"

\* newLogfile has returned an error: nothing is written, nothing is scheduled
RotationFailed ==
    /\ filePc' = "recv"
    /\ f'.name = f.name
    /\ fCreatedAt' = fCreatedAt
    /\ tasks' = tasks
    /\ logFiles' = logFiles
    /\ fileLines' = fileLines

\* C25: the file worker rotates exactly when it receives an entry and the
\* rotation is due (no file opened yet, or CreateNewAfter non-zero and
\* exceeded by the age of the active file); no step other than the receipt
\* of an entry opens or schedules anything; and the entry that caused a
\* successful rotation is written to the new file, which is not the previous
\* one.
C25_RotatesOnEntry ==
    [][ /\ (FileReceived /\ RotationDue) =>
              \/ /\ RotationDone
                 /\ f'.open /\ f'.name # f.name
                 /\ f'.name \in DOMAIN logFiles'
                 /\ fCreatedAt' = now
                 /\ fEntry' = Head(fileEntryChannel)
              \/ RotationFailed
        /\ (FileReceived /\ ~RotationDue) =>
              /\ f' = f /\ fCreatedAt' = fCreatedAt /\ tasks' = tasks
              /\ filePc' = filePc
        /\ ~FileReceived =>
              /\ f' = f /\ fCreatedAt' = fCreatedAt /\ tasks' \subseteq tasks
              /\ DOMAIN logFiles' \subseteq DOMAIN logFiles
        /\ (filePc = "logsend" /\ filePc' = "recv") =>
              fileLines' = Append(fileLines,
                  [id |-> fEntry.id, name |-> f.name, landed |-> TRUE])
      ]_vars

\* the worker is waiting for an entry and a file has been opened before
BetweenEntries == filePc = "recv" /\ f.name # 0

\* C26 as stated: from the first successful open onward, whenever the worker
\* is between entries the handle of the active file is open, also after a
\* rotation attempt that failed.
C26_OneHandleOpen == BetweenEntries => f.open

\* the worker has received an entry, the rotation was due and newLogfile
\* returned an error
FailedRotationStep == FileReceived /\ RotationDue /\ ~RotationDone

\* the entry is written to no file and kept nowhere, nothing is scheduled,
\* and the worker waits for the next entry
EntryDropped ==
    /\ fileLines' = fileLines
    /\ logFiles' = logFiles
    /\ gzFiles' = gzFiles
    /\ tasks' = tasks
    /\ fEntry' = fEntry
    /\ fileEntryChannel' = Tail(fileEntryChannel)
    /\ filePc' = "recv"
    /\ f'.name = f.name
    /\ fCreatedAt' = fCreatedAt

\* C27 as stated: when a rotation fails the entry is dropped, the worker goes
\* on to the next entry, nothing is scheduled for the old file, and the old
\* file, if any, is still open.
C27_OldFileStillOpen ==
    [][ FailedRotationStep =>
            /\ EntryDropped
            /\ f.name # 0 => f'.open ]_vars

\* a compress-and-remove task has run
TaskStep == tasks' # tasks /\ tasks' \subseteq tasks

\* what file.entryHandler holds and what it has written
WorkerState == <<filePc, fEntry, f, fCreatedAt, fileEntryChannel, fileLines,
                 sendPc["fw"], sendEntry["fw"]>>

\* C28 as stated: when the compression of a rotated-out file fails, the
\* file is removed all the same, and the step changes nothing of the file
\* worker.
C28_RemovedAfterFailure ==
    [][ (TaskStep /\ ran'.err # "") =>
            /\ ran'.name \notin DOMAIN logFiles'
            /\ UNCHANGED WorkerState ]_vars

\* C28, amended: when the compression of a rotated-out file fails, os.Remove
\* is called for the file all the same: the file is gone after the step
\* unless the disk refuses the removal, no other file is touched, and the
\* step changes nothing of the file worker.
C28_RemoveCalledAfterFailure ==
    [][ (TaskStep /\ ran'.err # "") =>
            /\ \/ ran'.name \notin DOMAIN logFiles'
               \/ ~ran'.rm /\ logFiles' = logFiles
            /\ \A n \in DOMAIN logFiles \ {ran'.name} :
                  n \in DOMAIN logFiles' /\ logFiles'[n] = logFiles[n]
            /\ (ran'.name \in DOMAIN gzFiles' /\ ran'.name \notin DOMAIN gzFiles)
                  => ~gzFiles'[ran'.name].whole
            /\ UNCHANGED WorkerState ]_vars

\* the compression of a rotated-out file that was on disk has failed, the
\* file is gone without a complete .gz, and the worker has written a line
\* to the active file, which is another one
C28_Witness ==
    /\ ran.err \in {"create", "copy"}
    /\ ran.name \notin DOMAIN logFiles
    /\ ran.name \in DOMAIN gzFiles => ~gzFiles[ran.name].whole
    /\ f.open /\ f.name # ran.name
    /\ \E i \in 1..Len(fileLines) : fileLines[i].name = f.name /\ fileLines[i].landed

\* the line of entry e is appended, once, to the file that is active after
\* the step, and reaches it
AppendedOnce(e) ==
    /\ e.id \notin Range(Ids(fileLines))
    /\ fileLines' = Append(fileLines,
           [id |-> e.id, name |-> f'.name, landed |-> TRUE])
    /\ f'.open

\* how many lines were written for the entry with this id
Copies(id) == Cardinality({i \in 1..Len(fileLines) : fileLines[i].id = id})

\* C29: every entry the file worker receives and whose rotation does not
\* fail is appended exactly once to the file that is active once the
\* rotation is resolved - the worker is not stopped between the receipt and
\* the write - and when the file channel is closed the worker exits only
\* after it has written every entry that was pushed on the channel, and the
\* exit itself rotates, closes and schedules nothing.
C29_WrittenOnceThenExit ==
    /\ []((filePc = "logsend" /\ sendPc["prod"] = "idle" /\ sendPc["main"] = "idle")
             => Alive)
    /\ [][ /\ (FileReceived /\ ~RotationDue) => AppendedOnce(Head(fileEntryChannel))
           /\ (filePc = "logsend" /\ filePc' = "recv") => AppendedOnce(fEntry)
           /\ (filePc # "exited" /\ filePc' = "exited") =>
                 /\ fileClosed /\ fileEntryChannel = <<>>
                 /\ UNCHANGED <<f, fCreatedAt, tasks, logFiles, gzFiles, fileLines>>
                 /\ env.diskFails \/
                       \A i \in 1..Len(filePushed) : Copies(filePushed[i].id) = 1
         ]_vars

\* file.entryHandler is inside newLogfile's log.Println, at the send on
\* fileEntryChannel, and the channel, which only file.entryHandler
\* receives from, is open and full
WorkerBlocked ==
    /\ filePc = "logsend"
    /\ sendPc["fw"] = "file"
    /\ useFailLogger
    /\ ~fileClosed
    /\ Len(fileEntryChannel) >= FileChanCap

\* C30: the file worker never blocks on a send to the channel of which it
\* is the only consumer, also when it opens a new file while producers have
\* filled the file channel.
C30_WorkerNeverBlocked == ~WorkerBlocked

\* C31: a compress-and-remove task only ever runs on a file that is no
\* longer the active file: when the task runs, the path it compresses and
\* removes differs from the path of the file the worker refers to.
C31_TaskNotOnActiveFile ==
    [][ TaskStep => \A t \in tasks \ tasks' : t.name # f.name ]_vars

\* C32: no entry accepted by the network sink is left behind at shutdown.
\* At every moment the entries pushed on the network channel are, in order,
\* those already flushed, those accumulated and those still in the channel,
\* so that no entry is part of two flushes; and once the worker has exited
\* the channel and the accumulation buffer are empty: every entry pushed has
\* been part of exactly one flush.
C32_NothingLeftBehind ==
    /\ Ids(flushed) \o Ids(entries) \o Ids(esEntryChannel) = Ids(esPushed)
    /\ \A i, j \in 1..Len(flushed) : flushed[i].id = flushed[j].id => i = j
    /\ esPc = "exited" =>
          /\ esEntryChannel = <<>>
          /\ entries = <<>>
          /\ Ids(flushed) = Ids(esPushed)

\* the worker has exited after CLose closed a channel that held entries: it
\* flushed a full batch first, and what was left in a flush of its own
C32_Witness ==
    /\ esPc = "exited"
    /\ esClosed
    /\ Len(esPushed) > EntriesToHold
    /\ ev.kind = "flush" /\ ev.trigger = "close"
    /\ Len(ev.batch) < Len(flushed)

\* the worker takes a tick from ticker.C
TickStep == ticksSeen' # ticksSeen

\* C33: whenever the network worker waits in its select the accumulated
\* batch holds fewer than EntriesToHold entries; every batch passed to
\* sendOrSave holds at least one entry and at most EntriesToHold; and a tick
\* that finds the batch empty makes no delivery attempt and flushes nothing.
C33_BatchBounded ==
    /\ [](esPc = "select" => Len(entries) < EntriesToHold)
    /\ [][ FlushStep =>
              /\ Len(ev'.batch) >= 1
              /\ Len(ev'.batch) <= EntriesToHold
              /\ flushed' = flushed \o ev'.batch ]_vars
    /\ [][ (TickStep /\ entries = <<>>) =>
              /\ nAttempts' = nAttempts
              /\ flushed' = flushed
              /\ dir' = dir
              /\ entries' = <<>> ]_vars

\* after a flush of a full batch and a tick, the worker waits in its select
\* with one entry less than EntriesToHold accumulated
C33_Witness ==
    /\ esPc = "select"
    /\ Len(entries) = EntriesToHold - 1
    /\ Len(flushed) >= EntriesToHold
    /\ ticksSeen > 0

====
